---- MODULE Spec2Model ----
(***************************************************************************)
(* Model of the stm32f4xx-hal core: the timer count-down drivers           *)
(* (src/src/timer/count_down.rs) and the SPI driver (src/src/spi.rs,       *)
(* src/src/spi/hal_02.rs).  Registers are records of fields, one driver    *)
(* call is one action, the peripheral hardware is a set of Hw* actions.    *)
(***************************************************************************)
EXTENDS Integers, Sequences, FiniteSets, TLC

VARIABLES
    dut,      \* which timer the program drives: "tim" or "syst"
    build,    \* [checks |-> overflow checks on (debug), wide |-> 32-bit TIM]
    tim,      \* general-purpose timer register block
    tdrv,     \* CountDownTimer value: "none" | "live" | "panicked" | "released"
    tg,       \* ghost history of the CountDownTimer
    tlast,    \* last CountDownTimer call: [op, res, pre, g, arg, steps]
    wpc,      \* where a wait call stands: [at, seen] (what the accessor gave)
    syst,     \* SysTick register block
    sclk,     \* SysCountDownTimer.clk
    sdrv,     \* SysCountDownTimer value: "live" | "panicked"
    sylast,   \* last SysCountDownTimer call: [op, res, pre, prevCancel, arg]
    spi,      \* SPI register block, with the log of the latest call's accesses
    spid,     \* the Spi value: [live, tmode, op] (its type parameters)
    pins,     \* pin routing: "default" | "alt"
    wire,     \* what the bus returns: "loopback" | "free"
    splast,   \* latest SPI step: [op, res, val, arg, pre, pred, pop, ppre]
    xfer,     \* the blocking transfer/write in progress or last completed
    cfg,      \* what the constructor was given: [mode, freq, clock]
    baud,     \* a pre_init under test: [clock, freq, done, br]
    dpin,     \* a DynamicPin and its pad: [mode, made, hw, odr, ext]
    dlast     \* latest DynamicPin step: [op, res, val, pre]

timerVars ==
    <<dut, build, tim, tdrv, tg, tlast, wpc, syst, sclk, sdrv, sylast>>

spiVars == <<spi, spid, pins, wire, splast, xfer, cfg>>

gpioVars == <<dpin, dlast>>

vars == <<timerVars, spiVars, baud, gpioVars>>

(***************************************************************************)
(* Bounds.  Register widths are scaled down: U32Max stands for u32::MAX,   *)
(* U16Max for the 16-bit registers (PSC, ARR of a 16-bit timer), U24Max    *)
(* for the 24-bit SysTick reload.                                          *)
(***************************************************************************)
U32Max == 5
U16Max == 2
U24Max == 3
MaxTicks == 4

Mod32 == U32Max + 1

\* CountDownTimerMs: const FREQ = 1_000
FREQ == 1000
\* SysCountDownTimer::start: clk / 1_000_000
SysDiv == 1000000

TicksSet == 0 .. MaxTicks

(***************************************************************************)
(* General-purpose timer registers (trait General).                        *)
(***************************************************************************)
TimReset == [cen |-> FALSE, cnt |-> 0, arr |-> U16Max, arr_sh |-> U16Max,
             psc |-> 0, uif |-> FALSE, uie |-> FALSE]

max_auto_reload(wide) == IF wide THEN U32Max ELSE U16Max

disable_counter(t) == [t EXCEPT !.cen = FALSE]

enable_counter(t) == [t EXCEPT !.cen = TRUE]

is_counter_enabled(t) == t.cen

reset_counter(t) == [t EXCEPT !.cnt = 0]

set_prescaler(t, psc) == [t EXCEPT !.psc = psc]

\* the reload register takes arr when it fits the register's width
set_auto_reload(t, arr, wide) ==
    IF arr <= max_auto_reload(wide)
    THEN [tim |-> [t EXCEPT !.arr = arr], res |-> "Ok"]
    ELSE [tim |-> t, res |-> "WrongAutoReload"]

\* software update event: latches the reload value, restarts the counter,
\* raises no update flag
trigger_update(t) == [t EXCEPT !.arr_sh = t.arr, !.cnt = 0]

\* General::get_update_interrupt_flag is defined outside these sources.
\* wait returns WouldBlock when it answers true, and the contract of wait
\* is WouldBlock while the update flag is not yet set: it answers true
\* while UIF is clear
get_update_interrupt_flag(t) == ~t.uif

clear_update_interrupt_flag(t) == [t EXCEPT !.uif = FALSE]

listen_update_interrupt(t, b) == [t EXCEPT !.uie = b]

\* one counter clock: the up-counter overflows after arr_sh + 1 clocks and
\* raises the update flag
TimClock(t) ==
    IF t.cnt >= t.arr_sh
    THEN [t EXCEPT !.cnt = 0, !.uif = TRUE, !.arr_sh = t.arr]
    ELSE [t EXCEPT !.cnt = t.cnt + 1]

(***************************************************************************)
(* CountDownTimer<TIM, FREQ>                                               *)
(***************************************************************************)
\* one register access of a driver call, appended to the call's trace with
\* the counter-enable bit it found and the value it wrote
Step(acc, a, v, t2) ==
    [tim |-> t2,
     steps |-> Append(acc.steps, [a |-> a, cen |-> acc.tim.cen, v |-> v])]

CountDownTimer_new_truncate(t, clk, checks) ==
    LET psc == ((clk \div FREQ - 1) % Mod32) % (U16Max + 1)
        s1 == Step([tim |-> t, steps |-> <<>>], "set_prescaler", psc,
                   set_prescaler(t, psc))
    IN  [tim |-> s1.tim, res |-> "Ok", steps |-> s1.steps]

\* new: psc = clk / FREQ - 1 (u32: panics on overflow when the build checks,
\* wraps otherwise); set_prescaler(u16(psc).unwrap())
CountDownTimer_new(t, clk, checks) ==
    LET q == clk \div FREQ
    IN  IF q = 0 /\ checks
        THEN [tim |-> t, res |-> "Panic", steps |-> <<>>]
        ELSE LET psc == (q - 1) % Mod32
             IN  IF psc > U16Max
                 THEN [tim |-> t, res |-> "Panic", steps |-> <<>>]
                 ELSE LET s1 == Step([tim |-> t, steps |-> <<>>],
                                     "set_prescaler", psc,
                                     set_prescaler(t, psc))
                      IN  [tim |-> s1.tim, res |-> "Ok", steps |-> s1.steps]

CountDownTimer_start_enablefirst(t, ticks, checks, wide) ==
    LET s0 == [tim |-> t, steps |-> <<>>]
        s1 == Step(s0, "reset_counter", 0, reset_counter(s0.tim))
        s2 == Step(s1, "enable_counter", 0, enable_counter(s1.tim))
    IN  IF ticks = 0 /\ checks
        THEN [tim |-> s2.tim, res |-> "Panic", steps |-> s2.steps]
        ELSE LET arr == (ticks - 1) % Mod32
                 r == set_auto_reload(s2.tim, arr, wide)
             IN  IF r.res # "Ok"
                 THEN [tim |-> r.tim, res |-> r.res, steps |-> s2.steps]
                 ELSE LET s3 == Step(s2, "set_auto_reload", arr, r.tim)
                          s4 == Step(s3, "trigger_update", 0,
                                     trigger_update(s3.tim))
                      IN  [tim |-> s4.tim, res |-> "Ok", steps |-> s4.steps]

CountDownTimer_start_undo(t, ticks, checks, wide) ==
    LET s0 == [tim |-> t, steps |-> <<>>]
        s1 == Step(s0, "disable_counter", 0, disable_counter(s0.tim))
        s2 == Step(s1, "reset_counter", 0, reset_counter(s1.tim))
    IN  IF ticks = 0 /\ checks
        THEN [tim |-> s2.tim, res |-> "Panic", steps |-> s2.steps]
        ELSE LET arr == (ticks - 1) % Mod32
                 r == set_auto_reload(s2.tim, arr, wide)
             IN  IF r.res # "Ok"
                 THEN [tim |-> t, res |-> r.res, steps |-> s2.steps]
                 ELSE LET s3 == Step(s2, "set_auto_reload", arr, r.tim)
                          s4 == Step(s3, "trigger_update", 0,
                                     trigger_update(s3.tim))
                          s5 == Step(s4, "enable_counter", 0,
                                     enable_counter(s4.tim))
                      IN  [tim |-> s5.tim, res |-> "Ok", steps |-> s5.steps]

\* start: disable_counter; reset_counter; arr = ticks - 1 (u32: panics on
\* overflow when the build checks, wraps otherwise); set_auto_reload(arr)?;
\* trigger_update; enable_counter
CountDownTimer_start(t, ticks, checks, wide) ==
    LET s0 == [tim |-> t, steps |-> <<>>]
        s1 == Step(s0, "disable_counter", 0, disable_counter(s0.tim))
        s2 == Step(s1, "reset_counter", 0, reset_counter(s1.tim))
    IN  IF ticks = 0 /\ checks
        THEN [tim |-> s2.tim, res |-> "Panic", steps |-> s2.steps]
        ELSE LET arr == (ticks - 1) % Mod32
                 r == set_auto_reload(s2.tim, arr, wide)
             IN  IF r.res # "Ok"
                 THEN [tim |-> r.tim, res |-> r.res, steps |-> s2.steps]
                 ELSE LET s3 == Step(s2, "set_auto_reload", arr, r.tim)
                          s4 == Step(s3, "trigger_update", 0,
                                     trigger_update(s3.tim))
                          s5 == Step(s4, "enable_counter", 0,
                                     enable_counter(s4.tim))
                      IN  [tim |-> s5.tim, res |-> "Ok", steps |-> s5.steps]

CountDownTimer_wait_after_swapped(t, seen) ==
    IF seen
    THEN [tim |-> clear_update_interrupt_flag(t), res |-> "Ok"]
    ELSE [tim |-> t, res |-> "WouldBlock"]

CountDownTimer_wait_after_noclear(t, seen) ==
    IF seen
    THEN [tim |-> t, res |-> "WouldBlock"]
    ELSE [tim |-> t, res |-> "Ok"]

CountDownTimer_wait_after_silent(t, seen) ==
    IF seen
    THEN [tim |-> t, res |-> "WouldBlock"]
    ELSE [tim |-> clear_update_interrupt_flag(t), res |-> "WouldBlock"]

CountDownTimer_wait_oneshot(t) ==
    IF ~t.uif
    THEN [tim |-> t, res |-> "WouldBlock"]
    ELSE [tim |-> [t EXCEPT !.uif = FALSE, !.cen = FALSE], res |-> "Ok"]

\* wait, from the point where get_update_interrupt_flag has answered seen
CountDownTimer_wait_after(t, seen) ==
    IF seen
    THEN [tim |-> t, res |-> "WouldBlock"]
    ELSE [tim |-> clear_update_interrupt_flag(t), res |-> "Ok"]

\* wait: if get_update_interrupt_flag() { WouldBlock }
\*       else { clear_update_interrupt_flag(); Ok }
CountDownTimer_wait(t) ==
    CountDownTimer_wait_after(t, get_update_interrupt_flag(t))

CountDownTimer_cancel_dropcheck(t) ==
    [tim |-> disable_counter(t), res |-> "Ok"]

CountDownTimer_cancel_clearflag(t) ==
    IF ~is_counter_enabled(t)
    THEN [tim |-> t, res |-> "Disabled"]
    ELSE [tim |-> clear_update_interrupt_flag(disable_counter(t)),
          res |-> "Ok"]

CountDownTimer_cancel(t) ==
    IF ~is_counter_enabled(t)
    THEN [tim |-> t, res |-> "Disabled"]
    ELSE [tim |-> disable_counter(t), res |-> "Ok"]

CountDownTimer_release_asis(t) == t

\* release: disable_counter; return the timer
CountDownTimer_release(t) == disable_counter(t)

\* ghost: fresh = a wait returned Ok and no update event or start since;
\*        cancelled = a cancel returned Ok and no start since;
\*        started = a start returned Ok;
\*        lastCancel = the latest driver call was a cancel;
\*        clk = the clock frequency new was given
\*        raced = an update event fell between the flag read and the flag
\*        clear of the wait call in progress (or of the latest one)
\*        since = the number of counter clocks since the latest wait that
\*        returned Ok, counted while that Ok came right after a rollover
\*        and a wait call was made after every counter clock since, with no
\*        other driver call; -1 otherwise
TgInit == [fresh |-> FALSE, cancelled |-> FALSE, started |-> FALSE,
           lastCancel |-> FALSE, clk |-> 0, raced |-> FALSE, since |-> -1]

NoCall == [op |-> "none", res |-> "none", pre |-> TimReset, g |-> TgInit,
           arg |-> 0, steps |-> <<>>]

\* tlast describes the latest step: a driver call with its result, the
\* registers and the ghost before it, its argument and its trace of register
\* accesses (start), or a hardware step
Call(op, res) == [op |-> op, res |-> res, pre |-> tim, g |-> tg,
                  arg |-> 0, steps |-> <<>>]

\* no wait call is in progress
WaitIdle == [at |-> "idle", seen |-> FALSE]

TimFrame ==
    UNCHANGED <<dut, build, wpc, syst, sclk, sdrv, sylast, spiVars, baud,
                gpioVars>>

TimNew ==
    /\ dut = "tim" /\ tdrv \in {"none", "released"}
    /\ \E clk \in {500, 1000, 3000, 4000} :
         LET r == CountDownTimer_new(TimReset, clk, build.checks)
         IN  /\ tim' = r.tim
             /\ tdrv' = IF r.res = "Ok" THEN "live" ELSE "panicked"
             /\ tg' = [TgInit EXCEPT !.clk = clk]
             /\ tlast' = [NoCall EXCEPT !.op = "new", !.res = r.res,
                                        !.steps = r.steps]
    /\ TimFrame

TimStart ==
    /\ dut = "tim" /\ tdrv = "live"
    /\ \E ticks \in TicksSet :
         LET r == CountDownTimer_start(tim, ticks, build.checks, build.wide)
         IN  /\ tim' = r.tim
             /\ tdrv' = IF r.res = "Panic" THEN "panicked" ELSE "live"
             /\ tg' = IF r.res = "Ok"
                      THEN [tg EXCEPT !.fresh = FALSE, !.cancelled = FALSE,
                                      !.started = TRUE, !.lastCancel = FALSE,
                                      !.since = -1]
                      ELSE [tg EXCEPT !.lastCancel = FALSE, !.since = -1]
             /\ tlast' = [Call("start", r.res) EXCEPT !.arg = ticks,
                                                      !.steps = r.steps]
    /\ TimFrame

TimWait ==
    /\ dut = "tim" /\ tdrv = "live"
    /\ LET r == CountDownTimer_wait(tim)
       IN  /\ tim' = r.tim
           /\ tg' = [tg EXCEPT !.fresh = IF r.res = "Ok" THEN TRUE ELSE @,
                              !.lastCancel = FALSE,
                              !.since = IF r.res # "Ok" THEN @
                                        ELSE IF tlast.op = "hw" /\ tim.cnt = 0
                                             THEN 0 ELSE -1]
           /\ tlast' = Call("wait", r.res)
    /\ UNCHANGED tdrv
    /\ TimFrame

TimCancel ==
    /\ dut = "tim" /\ tdrv = "live"
    /\ LET r == CountDownTimer_cancel(tim)
       IN  /\ tim' = r.tim
           /\ tg' = [tg EXCEPT !.cancelled = IF r.res = "Ok" THEN TRUE ELSE @,
                              !.lastCancel = TRUE]
           /\ tlast' = Call("cancel", r.res)
    /\ UNCHANGED tdrv
    /\ TimFrame

TimListen ==
    /\ dut = "tim" /\ tdrv = "live"
    /\ \E b \in BOOLEAN :
         /\ tim' = listen_update_interrupt(tim, b)
         /\ tlast' = Call(IF b THEN "listen" ELSE "unlisten", "Ok")
    /\ tg' = [tg EXCEPT !.lastCancel = FALSE]
    /\ UNCHANGED tdrv
    /\ TimFrame

TimClearInterrupt ==
    /\ dut = "tim" /\ tdrv = "live"
    /\ tim' = clear_update_interrupt_flag(tim)
    /\ tlast' = Call("clear_interrupt", "Ok")
    /\ tg' = [tg EXCEPT !.lastCancel = FALSE]
    /\ UNCHANGED tdrv
    /\ TimFrame

TimRelease ==
    /\ dut = "tim" /\ tdrv = "live"
    /\ tim' = CountDownTimer_release(tim)
    /\ tdrv' = "released"
    /\ tlast' = Call("release", "Ok")
    /\ tg' = [tg EXCEPT !.lastCancel = FALSE]
    /\ TimFrame

\* wait, in two steps that the counter hardware can come between: the read
\* of the update flag (a clear flag returns WouldBlock at once) ...
TimWaitRead ==
    /\ dut = "tim" /\ tdrv = "live" /\ wpc.at = "idle"
    /\ LET seen == get_update_interrupt_flag(tim)
       IN  /\ wpc' = [at |-> IF seen THEN "idle" ELSE "clear", seen |-> seen]
           /\ tlast' = Call("wait", IF seen THEN "WouldBlock" ELSE "reading")
    /\ tg' = [tg EXCEPT !.lastCancel = FALSE, !.raced = FALSE]
    /\ UNCHANGED <<tim, tdrv>>
    /\ UNCHANGED <<dut, build, syst, sclk, sdrv, sylast, spiVars, baud,
                   gpioVars>>

\* ... and, the accessor having answered false, the clear of the flag and Ok
TimWaitClear ==
    /\ dut = "tim" /\ tdrv = "live" /\ wpc.at = "clear"
    /\ LET r == CountDownTimer_wait_after(tim, wpc.seen)
       IN  /\ tim' = r.tim
           /\ tlast' = Call("wait", r.res)
           /\ tg' = [tg EXCEPT !.fresh = TRUE, !.since = -1]
    /\ wpc' = [wpc EXCEPT !.at = "idle"]
    /\ UNCHANGED tdrv
    /\ UNCHANGED <<dut, build, syst, sclk, sdrv, sylast, spiVars, baud,
                   gpioVars>>

\* the hardware counts while the counter is enabled
HwTimClock ==
    /\ dut = "tim" /\ tim.cen
    /\ tim' = TimClock(tim)
    /\ LET n == IF tg.since \in 0 .. MaxTicks /\ tlast.op = "wait"
                THEN tg.since + 1 ELSE -1
       IN  tg' = IF tim.cnt >= tim.arr_sh
                 THEN [tg EXCEPT !.fresh = FALSE,
                                 !.raced = (wpc.at = "clear"), !.since = n]
                 ELSE [tg EXCEPT !.since = n]
    /\ tlast' = [NoCall EXCEPT !.op = "hw"]
    /\ UNCHANGED tdrv
    /\ TimFrame

(***************************************************************************)
(* SysTick registers (cortex-m SYST) and SysCountDownTimer                 *)
(***************************************************************************)
SystReset == [enable |-> FALSE, rvr |-> 0, cvr |-> 0, countflag |-> FALSE,
              tickint |-> FALSE]

syst_set_reload(s, v) == [s EXCEPT !.rvr = v]

\* a write to the current-value register clears it and the count flag
syst_clear_current(s) == [s EXCEPT !.cvr = 0, !.countflag = FALSE]

syst_enable_counter(s) == [s EXCEPT !.enable = TRUE]

syst_disable_counter(s) == [s EXCEPT !.enable = FALSE]

syst_is_counter_enabled(s) == s.enable

syst_enable_interrupt(s) == [s EXCEPT !.tickint = TRUE]

syst_disable_interrupt(s) == [s EXCEPT !.tickint = FALSE]

\* reading the control/status register returns and clears COUNTFLAG
syst_has_wrapped(s) == [syst |-> [s EXCEPT !.countflag = FALSE],
                        val |-> s.countflag]

\* one clock: the down-counter reloads from 0 and flags the 1 -> 0 step
SystClock(s) ==
    IF s.cvr = 0 THEN [s EXCEPT !.cvr = s.rvr]
    ELSE [s EXCEPT !.cvr = s.cvr - 1,
                   !.countflag = IF s.cvr = 1 THEN TRUE ELSE s.countflag]

SysCountDownTimer_start(s, clk, us, checks) ==
    LET mul == clk \div SysDiv
        prod == us * mul
    IN  IF checks /\ (prod > U32Max \/ prod = 0)
        THEN [syst |-> s, res |-> "Panic"]
        ELSE LET rvr == ((prod % Mod32) - 1) % Mod32
             IN  IF ~(rvr < U24Max + 1)
                 THEN [syst |-> s, res |-> "Panic"]
                 ELSE [syst |-> syst_enable_counter(
                                  syst_clear_current(syst_set_reload(s, rvr))),
                       res |-> "Ok"]

SysCountDownTimer_wait(s) ==
    LET r == syst_has_wrapped(s)
    IN  [syst |-> r.syst, res |-> IF r.val THEN "Ok" ELSE "WouldBlock"]

SysCountDownTimer_cancel(s) ==
    IF ~syst_is_counter_enabled(s)
    THEN [syst |-> s, res |-> "Disabled"]
    ELSE [syst |-> syst_disable_counter(s), res |-> "Ok"]

\* sylast: the latest step; prevCancel = the driver call before it was a cancel
SyNoCall == [op |-> "none", res |-> "none", pre |-> SystReset,
             prevCancel |-> FALSE, arg |-> 0]

SyCall(op, res) == [op |-> op, res |-> res, pre |-> syst,
                    prevCancel |-> sylast.op = "cancel", arg |-> 0]

SysFrame ==
    UNCHANGED <<dut, build, tim, tdrv, tg, tlast, wpc, sclk, spiVars, baud,
                gpioVars>>

SysStart ==
    /\ dut = "syst" /\ sdrv = "live"
    /\ \E us \in TicksSet :
         LET r == SysCountDownTimer_start(syst, sclk, us, build.checks)
         IN  /\ syst' = r.syst
             /\ sdrv' = IF r.res = "Panic" THEN "panicked" ELSE "live"
             /\ sylast' = [SyCall("start", r.res) EXCEPT !.arg = us]
    /\ SysFrame

SysWait ==
    /\ dut = "syst" /\ sdrv = "live"
    /\ LET r == SysCountDownTimer_wait(syst)
       IN  /\ syst' = r.syst
           /\ sylast' = SyCall("wait", r.res)
    /\ UNCHANGED sdrv
    /\ SysFrame

SysCancel ==
    /\ dut = "syst" /\ sdrv = "live"
    /\ LET r == SysCountDownTimer_cancel(syst)
       IN  /\ syst' = r.syst
           /\ sylast' = SyCall("cancel", r.res)
    /\ UNCHANGED sdrv
    /\ SysFrame

\* listen(Event::TimeOut)
SysListen ==
    /\ dut = "syst" /\ sdrv = "live"
    /\ syst' = syst_enable_interrupt(syst)
    /\ sylast' = SyCall("listen", "Ok")
    /\ UNCHANGED sdrv
    /\ SysFrame

\* unlisten(Event::TimeOut)
SysUnlisten ==
    /\ dut = "syst" /\ sdrv = "live"
    /\ syst' = syst_disable_interrupt(syst)
    /\ sylast' = SyCall("unlisten", "Ok")
    /\ UNCHANGED sdrv
    /\ SysFrame

HwSystClock ==
    /\ dut = "syst" /\ syst.enable
    /\ syst' = SystClock(syst)
    /\ sylast' = [SyNoCall EXCEPT !.op = "hw"]
    /\ UNCHANGED sdrv
    /\ SysFrame

(***************************************************************************)
(* SPI registers.  CR1/CR2/SR are records of the bits the driver touches;  *)
(* rx and tx are the receive and transmit buffers behind DR.  Register     *)
(* side effects: a DR read clears RXNE and OVR; a CR1 write clears MODF    *)
(* once SR has been read with MODF set; CRCERR is cleared by writing 0.    *)
(***************************************************************************)
MaxByte == 1

Bytes == 0 .. MaxByte

NoByte == 0 - 1

Cr1Reset == [cpha |-> FALSE, cpol |-> FALSE, mstr |-> FALSE, br |-> 0,
             spe |-> FALSE, lsbfirst |-> FALSE, ssi |-> FALSE, ssm |-> FALSE,
             rxonly |-> FALSE, dff |-> FALSE, bidioe |-> FALSE,
             bidimode |-> FALSE]

Cr2Reset == [ssoe |-> FALSE, rxneie |-> FALSE, txeie |-> FALSE,
             errie |-> FALSE, txdmaen |-> FALSE, rxdmaen |-> FALSE]

SrReset == [rxne |-> FALSE, txe |-> TRUE, crcerr |-> FALSE, modf |-> FALSE,
            ovr |-> FALSE]

SpiReset == [cr1 |-> Cr1Reset, cr2 |-> Cr2Reset, sr |-> SrReset,
             rx |-> 0, tx |-> 0, modf_armed |-> FALSE, log |-> <<>>]

\* a register access, appended to the call's log with CR1 as it then stands
Logged(h, a) == [h EXCEPT !.log = Append(@, [a |-> a, cr1 |-> h.cr1])]

\* sr.read(): the caller takes h.sr as the snapshot
sr_read(h) == Logged([h EXCEPT !.modf_armed = @ \/ h.sr.modf], "sr_r")

\* dr.read() / read_u8(): the caller takes h.rx as the value
dr_read(h) == Logged([h EXCEPT !.sr.rxne = FALSE, !.sr.ovr = FALSE], "dr_r")

\* send_u8(byte)
dr_write(h, b) == Logged([h EXCEPT !.tx = b, !.sr.txe = FALSE], "dr_w")

\* cr1.write / cr1.modify leaving CR1 = v
cr1_write(h, v) ==
    Logged([h EXCEPT !.cr1 = v,
                     !.sr.modf = IF h.modf_armed THEN FALSE ELSE @,
                     !.modf_armed = FALSE], "cr1_w")

cr2_write(h, v) == Logged([h EXCEPT !.cr2 = v], "cr2_w")

\* sr.modify(|_, w| w.crcerr().clear_bit())
sr_clear_crcerr(h) ==
    Logged([h EXCEPT !.sr.crcerr = FALSE, !.modf_armed = @ \/ h.sr.modf],
           "sr_w")

\* a byte arrives in the receive buffer; it is lost when the last one was
\* not read
Receive(h, b) ==
    IF h.sr.rxne THEN [h EXCEPT !.sr.ovr = TRUE]
    ELSE [h EXCEPT !.rx = b, !.sr.rxne = TRUE]

(***************************************************************************)
(* Spi<SPI, PINS, TRANSFER_MODE, OPERATION>: construction and transitions  *)
(***************************************************************************)
\* the outcome of a pre_init that panics
BrPanic == 0 - 1

baud_br_shifted(ratio) ==
    CASE ratio = 0 -> BrPanic
      [] ratio \in 1 .. 2 -> 0
      [] ratio \in 3 .. 6 -> 1
      [] ratio \in 7 .. 11 -> 2
      [] ratio \in 12 .. 23 -> 3
      [] ratio \in 24 .. 47 -> 4
      [] ratio \in 48 .. 95 -> 5
      [] ratio \in 96 .. 191 -> 6
      [] OTHER -> 7

\* pre_init's match on clock / freq
baud_br(ratio) ==
    CASE ratio = 0 -> BrPanic
      [] ratio \in 1 .. 2 -> 0
      [] ratio \in 3 .. 5 -> 1
      [] ratio \in 6 .. 11 -> 2
      [] ratio \in 12 .. 23 -> 3
      [] ratio \in 24 .. 47 -> 4
      [] ratio \in 48 .. 95 -> 5
      [] ratio \in 96 .. 191 -> 6
      [] OTHER -> 7

\* the baud-rate part of pre_init: the BR field, or a panic (division by
\* zero, unreachable!())
pre_init_br(freq, clock) ==
    IF freq = 0 THEN BrPanic ELSE baud_br(clock \div freq)

pre_init(h, mode, freq, clock, is_master) ==
    LET h1 == cr2_write(h, [Cr2Reset EXCEPT !.ssoe = FALSE])
        br == pre_init_br(freq, clock)
    IN  IF br = BrPanic
        THEN [spi |-> h1, res |-> "Panic"]
        ELSE [spi |-> cr1_write(h1,
                        [Cr1Reset EXCEPT
                           !.cpha = (mode.phase = "CaptureOnSecondTransition"),
                           !.cpol = (mode.polarity = "IdleHigh"),
                           !.mstr = is_master,
                           !.br = br,
                           !.lsbfirst = FALSE,
                           !.ssm = TRUE,
                           !.ssi = is_master,
                           !.rxonly = FALSE,
                           !.dff = FALSE]),
              res |-> "Ok"]

\* init of Spi<_, _, TransferModeNormal, Master> and <_, _, TransferModeNormal, Slave>
init_normal_rewrite(h) ==
    cr1_write(h, [Cr1Reset EXCEPT !.mstr = h.cr1.mstr, !.ssi = h.cr1.ssi,
                                  !.br = h.cr1.br, !.spe = TRUE])

init_normal(h) ==
    cr1_write(h, [h.cr1 EXCEPT !.bidimode = FALSE, !.bidioe = FALSE,
                               !.spe = TRUE])

\* init of Spi<_, _, TransferModeBidi, Master> and <_, _, TransferModeBidi, Slave>
init_bidi(h) ==
    cr1_write(h, [h.cr1 EXCEPT !.bidimode = TRUE, !.bidioe = TRUE,
                               !.spe = TRUE])

init(h, tmode) == IF tmode = "Bidi" THEN init_bidi(h) ELSE init_normal(h)

enable(h, en) == cr1_write(h, [h.cr1 EXCEPT !.spe = en])

\* new / new_bidi / new_slave / new_bidi_slave on the peripheral as RCC
\* reset leaves it
Spi_new(tmode, op, mode, freq, clock) ==
    LET r == pre_init(SpiReset, mode, freq, clock, op = "Master")
    IN  IF r.res = "Panic" THEN r
        ELSE [spi |-> init(r.spi, tmode), res |-> "Ok"]

\* the Spi value d = [live, tmode, op] is moved: into_mode and
\* into_operation rebuild it with another type parameter, release gives
\* the peripheral and the pins back to the caller, use_dma moves the
\* peripheral into a DmaBuilder
into_mode(d, tmode) == [d EXCEPT !.tmode = tmode]

into_operation(d, op) == [d EXCEPT !.op = op]

Spi_release(d) == [d EXCEPT !.live = "released"]

Spi_use_dma_keep(d) == d

Spi_use_dma(d) == [d EXCEPT !.live = "dma"]

to_bidi_transfer_mode_nodisable(h) == init_bidi(h)

to_bidi_transfer_mode(h) == init_bidi(enable(h, FALSE))

to_normal_transfer_mode_noenable(h) ==
    LET h1 == enable(h, FALSE)
    IN  cr1_write(h1, [h1.cr1 EXCEPT !.bidimode = FALSE, !.bidioe = FALSE])

to_normal_transfer_mode(h) == init_normal(enable(h, FALSE))

\* to_slave_operation / to_master_operation: into_operation, enable(false),
\* init of the new type
to_slave_operation(h, tmode) == init(enable(h, FALSE), tmode)

to_master_operation(h, tmode) == init(enable(h, FALSE), tmode)

listen_overwrite(h, event) ==
    CASE event = "Rxne" -> cr2_write(h, [Cr2Reset EXCEPT !.rxneie = TRUE])
      [] event = "Txe" -> cr2_write(h, [Cr2Reset EXCEPT !.txeie = TRUE])
      [] event = "Error" -> cr2_write(h, [Cr2Reset EXCEPT !.errie = TRUE])

listen(h, event) ==
    CASE event = "Rxne" -> cr2_write(h, [h.cr2 EXCEPT !.rxneie = TRUE])
      [] event = "Txe" -> cr2_write(h, [h.cr2 EXCEPT !.txeie = TRUE])
      [] event = "Error" -> cr2_write(h, [h.cr2 EXCEPT !.errie = TRUE])

unlisten(h, event) ==
    CASE event = "Rxne" -> cr2_write(h, [h.cr2 EXCEPT !.rxneie = FALSE])
      [] event = "Txe" -> cr2_write(h, [h.cr2 EXCEPT !.txeie = FALSE])
      [] event = "Error" -> cr2_write(h, [h.cr2 EXCEPT !.errie = FALSE])

\* is_txe / is_rxne / is_modf / is_ovr: one read of SR, flag f of it
is_flag(h, f) == [spi |-> sr_read(h), val |-> h.sr[f]]

\* DmaBuilder::new_tx and new_rx
new_tx(h) == cr2_write(h, [h.cr2 EXCEPT !.txdmaen = TRUE])

new_rx(h) == cr2_write(h, [h.cr2 EXCEPT !.rxdmaen = TRUE])

(***************************************************************************)
(* Non-blocking byte transfer                                              *)
(***************************************************************************)
check_read(h) ==
    LET sr == h.sr
        h1 == sr_read(h)
    IN  IF sr.ovr THEN [spi |-> h1, res |-> "Overrun", val |-> NoByte, snap |-> sr]
        ELSE IF sr.modf THEN [spi |-> h1, res |-> "ModeFault", val |-> NoByte, snap |-> sr]
        ELSE IF sr.crcerr THEN [spi |-> h1, res |-> "Crc", val |-> NoByte, snap |-> sr]
        ELSE IF sr.rxne THEN [spi |-> dr_read(h1), res |-> "Ok", val |-> h1.rx,
              snap |-> sr]
        ELSE [spi |-> h1, res |-> "WouldBlock", val |-> NoByte, snap |-> sr]

check_send_noprio(h, byte) ==
    LET sr == h.sr
        h1 == sr_read(h)
    IN  IF sr.txe THEN [spi |-> dr_write(h1, byte), res |-> "Ok", val |-> NoByte, snap |-> sr]
        ELSE IF sr.ovr
        THEN [spi |-> dr_read(h1), res |-> "Overrun", val |-> NoByte, snap |-> sr]
        ELSE IF sr.modf
        THEN [spi |-> cr1_write(h1, h1.cr1), res |-> "ModeFault", val |-> NoByte, snap |-> sr]
        ELSE IF sr.crcerr
        THEN [spi |-> sr_clear_crcerr(h1), res |-> "Crc", val |-> NoByte, snap |-> sr]
        ELSE [spi |-> h1, res |-> "WouldBlock", val |-> NoByte, snap |-> sr]

check_send_nodrain(h, byte) ==
    LET sr == h.sr
        h1 == sr_read(h)
    IN  IF sr.ovr
        THEN [spi |-> h1, res |-> "Overrun", val |-> NoByte, snap |-> sr]
        ELSE IF sr.modf
        THEN [spi |-> cr1_write(h1, h1.cr1), res |-> "ModeFault", val |-> NoByte, snap |-> sr]
        ELSE IF sr.crcerr
        THEN [spi |-> sr_clear_crcerr(h1), res |-> "Crc", val |-> NoByte, snap |-> sr]
        ELSE IF sr.txe
        THEN [spi |-> dr_write(h1, byte), res |-> "Ok", val |-> NoByte, snap |-> sr]
        ELSE [spi |-> h1, res |-> "WouldBlock", val |-> NoByte, snap |-> sr]

check_send(h, byte) ==
    LET sr == h.sr
        h1 == sr_read(h)
    IN  IF sr.ovr
        THEN [spi |-> dr_read(h1), res |-> "Overrun", val |-> NoByte, snap |-> sr]
        ELSE IF sr.modf
        THEN [spi |-> cr1_write(h1, h1.cr1), res |-> "ModeFault", val |-> NoByte, snap |-> sr]
        ELSE IF sr.crcerr
        THEN [spi |-> sr_clear_crcerr(h1), res |-> "Crc", val |-> NoByte, snap |-> sr]
        ELSE IF sr.txe
        THEN [spi |-> dr_write(h1, byte), res |-> "Ok", val |-> NoByte, snap |-> sr]
        ELSE [spi |-> h1, res |-> "WouldBlock", val |-> NoByte, snap |-> sr]

\* FullDuplex<u8> for Spi<_, _, TransferModeNormal>
read_normal(h) == check_read(h)

send_normal(h, byte) == check_send(h, byte)

read_bidi_keepdir(h) == check_read(h)

\* FullDuplex<u8> for Spi<_, _, TransferModeBidi>
read_bidi(h) == check_read(cr1_write(h, [h.cr1 EXCEPT !.bidioe = FALSE]))

send_bidi(h, byte) ==
    check_send(cr1_write(h, [h.cr1 EXCEPT !.bidioe = TRUE]), byte)

(***************************************************************************)
(* Blocking transfer and write (hal_02.rs, mod blocking).  x is the        *)
(* progress of the call: the caller's buffer as given (orig) and as it     *)
(* stands (buf), the position i of the loop, the nb::block! it is in       *)
(* (phase), and the history of the sends and reads that succeeded.  One    *)
(* step is one poll of the nb::block! the loop is in.                      *)
(***************************************************************************)
FullDuplex_send(h, byte, tmode) ==
    IF tmode = "Bidi" THEN send_bidi(h, byte) ELSE send_normal(h, byte)

FullDuplex_read(h, tmode) ==
    IF tmode = "Bidi" THEN read_bidi(h) ELSE read_normal(h)

Event(e, i, b) == [e |-> e, i |-> i, b |-> b]

\* the loop moves to the next word, or the call returns Ok after the last
NextWord(x) ==
    IF x.i = Len(x.buf)
    THEN [x EXCEPT !.res = "Ok", !.phase = "send"]
    ELSE [x EXCEPT !.i = x.i + 1, !.phase = "send"]

Blocked_skip(x, r) ==
    [x |-> IF r.res = "WouldBlock" THEN x ELSE NextWord(x),
     spi |-> r.spi, res |-> r.res]

Blocked_spin(x, r) ==
    [x |-> x, spi |-> r.spi, res |-> r.res]

\* a poll that did not succeed: nb::block! polls again on WouldBlock and
\* `?` returns any other error
Blocked(x, r) ==
    [x |-> IF r.res = "WouldBlock" THEN x ELSE [x EXCEPT !.res = r.res],
     spi |-> r.spi, res |-> r.res]

Polled(x, r) ==
    [x |-> x, spi |-> r.spi, res |-> r.res]

transfer_step_mirrored(x, h, tmode) ==
    IF x.phase = "send"
    THEN LET r == FullDuplex_send(h, x.buf[x.i], tmode)
         IN  IF r.res # "Ok" THEN Blocked(x, r)
             ELSE Polled([x EXCEPT !.phase = "read",
                            !.hist = Append(@, Event("send", x.i, x.buf[x.i]))],
                         r)
    ELSE LET r == FullDuplex_read(h, tmode)
         IN  IF r.res # "Ok" THEN Blocked(x, r)
             ELSE Polled(NextWord([x EXCEPT
                            !.buf[Len(x.buf) + 1 - x.i] = r.val,
                            !.hist = Append(@, Event("read", x.i, r.val))]),
                         r)

transfer_step_readfirst(x, h, tmode) ==
    IF x.phase = "send"
    THEN LET r == FullDuplex_read(h, tmode)
         IN  IF r.res # "Ok" THEN Blocked(x, r)
             ELSE Polled([x EXCEPT !.phase = "read", !.buf[x.i] = r.val,
                            !.hist = Append(@, Event("read", x.i, r.val))],
                         r)
    ELSE LET r == FullDuplex_send(h, x.orig[x.i], tmode)
         IN  IF r.res # "Ok" THEN Blocked(x, r)
             ELSE Polled(NextWord([x EXCEPT
                            !.hist = Append(@, Event("send", x.i, x.orig[x.i]))]),
                         r)

\* transfer: for word in words { block!(send(*word))?; *word = block!(read())? }
transfer_step(x, h, tmode) ==
    IF x.phase = "send"
    THEN LET r == FullDuplex_send(h, x.buf[x.i], tmode)
         IN  IF r.res # "Ok" THEN Blocked(x, r)
             ELSE Polled([x EXCEPT !.phase = "read",
                            !.hist = Append(@, Event("send", x.i, x.buf[x.i]))],
                         r)
    ELSE LET r == FullDuplex_read(h, tmode)
         IN  IF r.res # "Ok" THEN Blocked(x, r)
             ELSE Polled(NextWord([x EXCEPT !.buf[x.i] = r.val,
                            !.hist = Append(@, Event("read", x.i, r.val))]),
                         r)

write_normal_step_noread(x, h) ==
    LET r == send_normal(h, x.buf[x.i])
    IN  IF r.res # "Ok" THEN Blocked(x, r)
        ELSE Polled(NextWord([x EXCEPT
                       !.hist = Append(@, Event("send", x.i, x.buf[x.i]))]),
                    r)

\* write / write_iter of Spi<_, _, TransferModeNormal>:
\* for word in words { block!(send(*word))?; block!(read())? }
write_normal_step(x, h) ==
    IF x.phase = "send"
    THEN LET r == send_normal(h, x.buf[x.i])
         IN  IF r.res # "Ok" THEN Blocked(x, r)
             ELSE Polled([x EXCEPT !.phase = "read",
                            !.hist = Append(@, Event("send", x.i, x.buf[x.i]))],
                         r)
    ELSE LET r == read_normal(h)
         IN  IF r.res # "Ok" THEN Blocked(x, r)
             ELSE Polled(NextWord([x EXCEPT
                            !.hist = Append(@, Event("read", x.i, r.val))]),
                         r)

write_bidi_step_withread(x, h) ==
    IF x.phase = "send"
    THEN LET r == send_bidi(h, x.buf[x.i])
         IN  IF r.res # "Ok" THEN Blocked(x, r)
             ELSE Polled([x EXCEPT !.phase = "read",
                            !.hist = Append(@, Event("send", x.i, x.buf[x.i]))],
                         r)
    ELSE LET r == read_bidi(h)
         IN  IF r.res # "Ok" THEN Blocked(x, r)
             ELSE Polled(NextWord([x EXCEPT
                            !.hist = Append(@, Event("read", x.i, r.val))]),
                         r)

\* write / write_iter of Spi<_, _, TransferModeBidi>:
\* for word in words { block!(send(*word))? }
write_bidi_step(x, h) ==
    LET r == send_bidi(h, x.buf[x.i])
    IN  IF r.res # "Ok" THEN Blocked(x, r)
        ELSE Polled(NextWord([x EXCEPT
                       !.hist = Append(@, Event("send", x.i, x.buf[x.i]))]),
                    r)

write_step(x, h, tmode) ==
    IF tmode = "Bidi" THEN write_bidi_step(x, h) ELSE write_normal_step(x, h)

(***************************************************************************)
(* SPI actions                                                             *)
(***************************************************************************)
SpiModes == [polarity : {"IdleLow", "IdleHigh"},
             phase : {"CaptureOnFirstTransition", "CaptureOnSecondTransition"}]

SpidNone == [live |-> "none", tmode |-> "Normal", op |-> "Master"]

\* splast describes the latest step: a driver call with its result, the
\* byte returned, the byte passed, the status snapshot it took and the
\* registers and type before it; or a step of the bus.  When the call
\* before it was a mode transition, pop names it and ppre is CR1 before it.
\* ev is the event of a listen or unlisten.
SpNoCall == [op |-> "none", res |-> "none", val |-> NoByte, arg |-> NoByte,
             snap |-> SrReset, pre |-> SpiReset, pred |-> SpidNone,
             pop |-> "none", ppre |-> Cr1Reset, ev |-> "none"]

\* a driver call starts with an empty access log
Fresh(h) == [h EXCEPT !.log = <<>>]

TransitionOps == {"to_bidi_transfer_mode", "to_normal_transfer_mode",
                  "to_slave_operation", "to_master_operation"}

SpCall(op, res, val, arg, snap) ==
    [op |-> op, res |-> res, val |-> val, arg |-> arg, snap |-> snap,
     pre |-> Fresh(spi), pred |-> spid,
     pop |-> IF splast.op \in TransitionOps THEN splast.op ELSE "none",
     ppre |-> IF splast.op \in TransitionOps THEN splast.pre.cr1
              ELSE Cr1Reset,
     ev |-> "none"]

\* no blocking call: the state of xfer before the first transfer or write,
\* and after a read or send of the caller's own; orig is the buffer the
\* caller passes to its blocking calls
XferIdle == [op |-> "none", res |-> "none", orig |-> <<>>, buf |-> <<>>,
             i |-> 1, phase |-> "send", hist |-> <<>>, pre |-> SrReset]

XferFrame == UNCHANGED <<timerVars, baud, gpioVars, cfg>>

SpiFrame == UNCHANGED <<timerVars, baud, gpioVars, xfer, cfg>>

SpiNew ==
    /\ spid.live \in {"none", "released"}
    /\ \E tmode \in {"Normal", "Bidi"}, op \in {"Master", "Slave"},
          mode \in SpiModes, freq \in {1, 4, 32}, clock \in {8, 16} :
         LET r == Spi_new(tmode, op, mode, freq, clock)
         IN  /\ spi' = r.spi
             /\ spid' = [live |-> IF r.res = "Ok" THEN "live" ELSE "panicked",
                         tmode |-> tmode, op |-> op]
             /\ splast' = [SpNoCall EXCEPT !.op = "new", !.res = r.res,
                                           !.pred = spid]
             /\ cfg' = [mode |-> mode, freq |-> freq, clock |-> clock]
    /\ pins' = "alt"
    /\ UNCHANGED <<wire, xfer, timerVars, baud, gpioVars>>

SpiToBidi ==
    /\ spid.live = "live" /\ spid.tmode = "Normal" /\ xfer.res # "run"
    /\ spi' = to_bidi_transfer_mode(Fresh(spi))
    /\ spid' = into_mode(spid, "Bidi")
    /\ splast' = SpCall("to_bidi_transfer_mode", "Ok", NoByte, NoByte, SrReset)
    /\ UNCHANGED <<pins, wire>>
    /\ SpiFrame

SpiToNormal ==
    /\ spid.live = "live" /\ spid.tmode = "Bidi" /\ xfer.res # "run"
    /\ spi' = to_normal_transfer_mode(Fresh(spi))
    /\ spid' = into_mode(spid, "Normal")
    /\ splast' = SpCall("to_normal_transfer_mode", "Ok", NoByte, NoByte, SrReset)
    /\ UNCHANGED <<pins, wire>>
    /\ SpiFrame

SpiToSlave ==
    /\ spid.live = "live" /\ spid.op = "Master" /\ xfer.res # "run"
    /\ spi' = to_slave_operation(Fresh(spi), spid.tmode)
    /\ spid' = into_operation(spid, "Slave")
    /\ splast' = SpCall("to_slave_operation", "Ok", NoByte, NoByte, SrReset)
    /\ UNCHANGED <<pins, wire>>
    /\ SpiFrame

SpiToMaster ==
    /\ spid.live = "live" /\ spid.op = "Slave" /\ xfer.res # "run"
    /\ spi' = to_master_operation(Fresh(spi), spid.tmode)
    /\ spid' = into_operation(spid, "Master")
    /\ splast' = SpCall("to_master_operation", "Ok", NoByte, NoByte, SrReset)
    /\ UNCHANGED <<pins, wire>>
    /\ SpiFrame

SpiListen ==
    /\ spid.live = "live" /\ xfer.res # "run"
    /\ \E ev \in {"Rxne", "Txe", "Error"} :
         /\ spi' = listen(Fresh(spi), ev)
         /\ splast' = [SpCall("listen", "Ok", NoByte, NoByte, SrReset)
                          EXCEPT !.ev = ev]
    /\ UNCHANGED <<spid, pins, wire>>
    /\ SpiFrame

SpiUnlisten ==
    /\ spid.live = "live" /\ xfer.res # "run"
    /\ \E ev \in {"Rxne", "Txe", "Error"} :
         /\ spi' = unlisten(Fresh(spi), ev)
         /\ splast' = [SpCall("unlisten", "Ok", NoByte, NoByte, SrReset)
                          EXCEPT !.ev = ev]
    /\ UNCHANGED <<spid, pins, wire>>
    /\ SpiFrame

\* enable(enable)
SpiEnable ==
    /\ spid.live = "live" /\ xfer.res # "run"
    /\ \E en \in BOOLEAN :
         /\ spi' = enable(Fresh(spi), en)
         /\ splast' = SpCall("enable", "Ok", NoByte, IF en THEN 1 ELSE 0,
                             SrReset)
    /\ UNCHANGED <<spid, pins, wire>>
    /\ SpiFrame

\* init of the driver's own type
SpiInit ==
    /\ spid.live = "live" /\ xfer.res # "run"
    /\ spi' = init(Fresh(spi), spid.tmode)
    /\ splast' = SpCall("init", "Ok", NoByte, NoByte, SrReset)
    /\ UNCHANGED <<spid, pins, wire>>
    /\ SpiFrame

\* is_txe / is_rxne / is_modf / is_ovr; val is 1 for true
SpiIsFlag ==
    /\ spid.live = "live" /\ xfer.res # "run"
    /\ \E f \in {"txe", "rxne", "modf", "ovr"} :
         LET r == is_flag(Fresh(spi), f)
         IN  /\ spi' = r.spi
             /\ splast' = [SpCall("is_flag", "Ok", IF r.val THEN 1 ELSE 0,
                                  NoByte, spi.sr) EXCEPT !.ev = f]
    /\ UNCHANGED <<spid, pins, wire>>
    /\ SpiFrame

\* release: restore the pins, hand back the peripheral as it is
SpiRelease ==
    /\ spid.live = "live" /\ xfer.res # "run"
    /\ pins' = "default"
    /\ spid' = Spi_release(spid)
    /\ spi' = Fresh(spi)
    /\ splast' = SpCall("release", "Ok", NoByte, NoByte, SrReset)
    /\ UNCHANGED wire
    /\ SpiFrame

\* use_dma: the peripheral moves into a DmaBuilder
SpiUseDma ==
    /\ spid.live = "live" /\ xfer.res # "run"
    /\ spid' = Spi_use_dma(spid)
    /\ spi' = Fresh(spi)
    /\ splast' = SpCall("use_dma", "Ok", NoByte, NoByte, SrReset)
    /\ UNCHANGED <<pins, wire>>
    /\ SpiFrame

\* DmaBuilder::tx / rx / txrx: the builder is consumed, the channel
\* handles remain
SpiDma ==
    /\ spid.live = "dma"
    /\ \E ch \in {"tx", "rx", "txrx"} :
         /\ spi' = CASE ch = "tx" -> new_tx(Fresh(spi))
                     [] ch = "rx" -> new_rx(Fresh(spi))
                     [] ch = "txrx" -> new_rx(new_tx(Fresh(spi)))
         /\ splast' = [SpCall("dma", "Ok", NoByte, NoByte, SrReset)
                          EXCEPT !.ev = ch]
    /\ spid' = [spid EXCEPT !.live = "channels"]
    /\ UNCHANGED <<pins, wire>>
    /\ SpiFrame

\* FullDuplex is implemented for Spi<_, _, _, Master> only
SpiRead ==
    /\ spid.live = "live" /\ spid.op = "Master" /\ xfer.res # "run"
    /\ LET r == IF spid.tmode = "Bidi" THEN read_bidi(Fresh(spi))
                ELSE read_normal(Fresh(spi))
       IN  /\ spi' = r.spi
           /\ splast' = SpCall("read", r.res, r.val, NoByte, r.snap)
    /\ xfer' = [XferIdle EXCEPT !.orig = xfer.orig]
    /\ UNCHANGED <<spid, pins, wire>>
    /\ XferFrame

SpiSend ==
    /\ spid.live = "live" /\ spid.op = "Master" /\ xfer.res # "run"
    /\ \E b \in Bytes :
         LET r == IF spid.tmode = "Bidi" THEN send_bidi(Fresh(spi), b)
                  ELSE send_normal(Fresh(spi), b)
         IN  /\ spi' = r.spi
             /\ splast' = SpCall("send", r.res, r.val, b, r.snap)
    /\ xfer' = [XferIdle EXCEPT !.orig = xfer.orig]
    /\ UNCHANGED <<spid, pins, wire>>
    /\ XferFrame

\* the bus can transmit unless a single-wire link is set to receive: the
\* transmit buffer is shifted out; on two wires a byte comes back
HwShiftOut ==
    /\ spid.live = "live" /\ spi.cr1.spe /\ ~spi.sr.txe
    /\ ~spi.cr1.bidimode \/ spi.cr1.bidioe
    /\ \E b \in Bytes :
         /\ wire = "loopback" => b = spi.tx
         /\ spi' = IF spi.cr1.bidimode
                   THEN [spi EXCEPT !.sr.txe = TRUE]
                   ELSE Receive([spi EXCEPT !.sr.txe = TRUE], b)
    /\ splast' = [SpNoCall EXCEPT !.op = "hw"]
    /\ UNCHANGED <<spid, pins, wire>>
    /\ SpiFrame

\* a byte arrives without one being sent: a single-wire link set to
\* receive, or a slave clocked by its master with nothing to transmit (with
\* a byte in the transmit buffer the frame is a HwShiftOut)
HwReceive ==
    /\ spid.live = "live" /\ spi.cr1.spe /\ wire = "free"
    /\ \/ spi.cr1.bidimode /\ ~spi.cr1.bidioe
       \/ ~spi.cr1.bidimode /\ ~spi.cr1.mstr /\ spi.sr.txe
    /\ \E b \in Bytes : spi' = Receive(spi, b)
    /\ splast' = [SpNoCall EXCEPT !.op = "hw"]
    /\ UNCHANGED <<spid, pins, wire>>
    /\ SpiFrame

\* the bus raises a mode fault or a CRC error
HwFault ==
    /\ spid.live = "live" /\ spi.cr1.spe
    /\ \E f \in {"modf", "crcerr"} :
         /\ ~spi.sr[f]
         /\ spi' = [spi EXCEPT !.sr[f] = TRUE]
    /\ splast' = [SpNoCall EXCEPT !.op = "hw"]
    /\ UNCHANGED <<spid, pins, wire>>
    /\ SpiFrame

\* the caller's buffers have at most MaxLen bytes
MaxLen == 2

\* transfer(words) / write(words) is entered; with no words it returns Ok.
\* Transfer and Write are implemented for Spi<_, _, _, Master> only
XferBegin ==
    /\ spid.live = "live" /\ spid.op = "Master" /\ xfer.res # "run"
    /\ \E op \in {"transfer", "write"} :
         /\ xfer' = [op |-> op,
                     res |-> IF Len(xfer.orig) = 0 THEN "Ok" ELSE "run",
                     orig |-> xfer.orig, buf |-> xfer.orig, i |-> 1,
                     phase |-> "send", hist |-> <<>>, pre |-> spi.sr]
         /\ splast' = [SpNoCall EXCEPT !.op = op, !.res = "enter"]
    /\ spi' = Fresh(spi)
    /\ UNCHANGED <<spid, pins, wire>>
    /\ XferFrame

\* the blocking call polls once
XferPoll ==
    /\ spid.live = "live" /\ xfer.res = "run"
    /\ LET r == IF xfer.op = "transfer"
                THEN transfer_step(xfer, Fresh(spi), spid.tmode)
                ELSE write_step(xfer, Fresh(spi), spid.tmode)
       IN  /\ xfer' = r.x
           /\ spi' = r.spi
           /\ splast' = [SpNoCall EXCEPT !.op = xfer.op, !.res = r.res]
    /\ UNCHANGED <<spid, pins, wire>>
    /\ XferFrame

SpiIdle ==
    /\ spi = SpiReset /\ spid = SpidNone /\ pins = "default"
    /\ wire = "free" /\ splast = SpNoCall
    /\ xfer = XferIdle /\ cfg = [mode |-> [polarity |-> "IdleLow",
                          phase |-> "CaptureOnFirstTransition"],
               freq |-> 1, clock |-> 1]

(***************************************************************************)
(* pre_init's baud-rate choice on its own, over a range of clocks          *)
(***************************************************************************)
MaxHz == 600
MaxReq == 3

BaudIdle == baud = [clock |-> 1, freq |-> 1, done |-> TRUE, br |-> 0]

BaudApply ==
    /\ ~baud.done
    /\ baud' = [baud EXCEPT !.done = TRUE,
                            !.br = pre_init_br(baud.freq, baud.clock)]
    /\ UNCHANGED <<timerVars, spiVars, gpioVars>>

(***************************************************************************)
(* DynamicPin<P, N> (src/src/gpio/dynamic.rs): a pin whose mode is tracked *)
(* at run time.  mode is the field of the struct, made the mode of the     *)
(* most recent make_* call ("none" before the first).  The pad is the      *)
(* hardware: hw the mode its configuration registers select, odr the       *)
(* output data bit (TRUE = high), ext what is connected outside.           *)
(***************************************************************************)
Dynamics == {"InputFloating", "InputPullUp", "InputPullDown",
             "OutputPushPull", "OutputOpenDrain"}

is_input_strict(mode) ==
    mode \in {"InputFloating", "InputPullUp", "InputPullDown"}

is_input(mode) ==
    CASE mode \in {"InputFloating", "InputPullUp", "InputPullDown",
                   "OutputOpenDrain"} -> TRUE
      [] mode = "OutputPushPull" -> FALSE

is_output(mode) ==
    CASE mode \in {"InputFloating", "InputPullUp", "InputPullDown"} -> FALSE
      [] mode \in {"OutputPushPull", "OutputOpenDrain"} -> TRUE

\* Pin::_set_state: a write to the set/reset register
set_state(p, high) == [p EXCEPT !.odr = high]

\* the levels the input data register can show (TRUE = high): a push-pull
\* output shows its own bit, an open-drain output pulls the line low or
\* lets it go, an input shows what is outside; an undriven line follows
\* the pull if there is one and is undetermined if there is none
PadLevels(p) ==
    IF p.hw = "OutputPushPull" THEN {p.odr}
    ELSE IF p.hw = "OutputOpenDrain" /\ ~p.odr THEN {FALSE}
    ELSE IF p.ext # "none" THEN {p.ext = "high"}
    ELSE IF p.hw = "InputPullUp" THEN {TRUE}
    ELSE IF p.hw = "InputPullDown" THEN {FALSE}
    ELSE BOOLEAN

DynamicPin_set_high(p) ==
    IF is_output(p.mode)
    THEN [pin |-> set_state(p, TRUE), res |-> "Ok"]
    ELSE [pin |-> p, res |-> "IncorrectMode"]

DynamicPin_set_low(p) ==
    IF is_output(p.mode)
    THEN [pin |-> set_state(p, FALSE), res |-> "Ok"]
    ELSE [pin |-> p, res |-> "IncorrectMode"]

\* is_low, with the level the input data register shows
DynamicPin_is_low(p, level) ==
    IF is_input(p.mode)
    THEN [res |-> "Ok", val |-> ~level]
    ELSE [res |-> "IncorrectMode", val |-> FALSE]

\* is_high: self.is_low().map(|b| !b)
DynamicPin_is_high(p, level) ==
    LET r == DynamicPin_is_low(p, level)
    IN  IF r.res = "Ok" THEN [r EXCEPT !.val = ~r.val] ELSE r

\* the make_* methods: the mode each selects, and whether it takes the
\* initial state of the output
MakeMode ==
    [make_pull_up_input |-> [mode |-> "InputPullUp", in_state |-> FALSE],
     make_pull_down_input |-> [mode |-> "InputPullDown", in_state |-> FALSE],
     make_floating_input |-> [mode |-> "InputFloating", in_state |-> FALSE],
     make_push_pull_output |->
         [mode |-> "OutputPushPull", in_state |-> FALSE],
     make_push_pull_output_in_state |->
         [mode |-> "OutputPushPull", in_state |-> TRUE],
     make_open_drain_output |->
         [mode |-> "OutputOpenDrain", in_state |-> FALSE],
     make_open_drain_output_in_state |->
         [mode |-> "OutputOpenDrain", in_state |-> TRUE]]

\* make_*: Pin::new().into_*() reconfigures the pad (the _in_state forms
\* set the output bit first), then self.mode is assigned
DynamicPin_make(p, kind, high) ==
    LET m  == MakeMode[kind]
        p1 == IF m.in_state THEN set_state(p, high) ELSE p
    IN  [p1 EXCEPT !.hw = m.mode, !.mode = m.mode, !.made = m.mode]

DynPinReset == [mode |-> "InputFloating", made |-> "none",
                hw |-> "InputFloating", odr |-> FALSE, ext |-> "none"]

DynIdle ==
    /\ dpin = DynPinReset
    /\ dlast = [op |-> "none", res |-> "none", val |-> FALSE,
                pre |-> DynPinReset]

DynMake ==
    /\ \E kind \in DOMAIN MakeMode, high \in BOOLEAN :
         /\ ~MakeMode[kind].in_state => ~high
         /\ dpin' = DynamicPin_make(dpin, kind, high)
         /\ dlast' = [op |-> kind, res |-> "Ok", val |-> high, pre |-> dpin]
    /\ UNCHANGED <<timerVars, spiVars, baud>>

DynSetHigh ==
    /\ LET r == DynamicPin_set_high(dpin)
       IN  /\ dpin' = r.pin
           /\ dlast' = [op |-> "set_high", res |-> r.res, val |-> FALSE,
                        pre |-> dpin]
    /\ UNCHANGED <<timerVars, spiVars, baud>>

DynSetLow ==
    /\ LET r == DynamicPin_set_low(dpin)
       IN  /\ dpin' = r.pin
           /\ dlast' = [op |-> "set_low", res |-> r.res, val |-> FALSE,
                        pre |-> dpin]
    /\ UNCHANGED <<timerVars, spiVars, baud>>

DynIsLow ==
    /\ \E level \in PadLevels(dpin) :
         LET r == DynamicPin_is_low(dpin, level)
         IN  dlast' = [op |-> "is_low", res |-> r.res, val |-> r.val,
                       pre |-> dpin]
    /\ UNCHANGED <<dpin, timerVars, spiVars, baud>>

DynIsHigh ==
    /\ \E level \in PadLevels(dpin) :
         LET r == DynamicPin_is_high(dpin, level)
         IN  dlast' = [op |-> "is_high", res |-> r.res, val |-> r.val,
                       pre |-> dpin]
    /\ UNCHANGED <<dpin, timerVars, spiVars, baud>>

\* what is connected outside drives the line low or high, or lets it go
HwPinDrive ==
    /\ \E e \in {"none", "low", "high"} :
         e # dpin.ext /\ dpin' = [dpin EXCEPT !.ext = e]
    /\ dlast' = [op |-> "hw", res |-> "none", val |-> FALSE, pre |-> dpin]
    /\ UNCHANGED <<timerVars, spiVars, baud>>

(***************************************************************************)
(* Timer specification: the program drives one of the two timers.          *)
(***************************************************************************)
InitTimer ==
    /\ dut \in {"tim", "syst"}
    /\ build \in [checks : BOOLEAN, wide : BOOLEAN]
    /\ tim = TimReset /\ tdrv = "none" /\ tg = TgInit /\ tlast = NoCall
    /\ wpc = WaitIdle
    /\ syst = SystReset /\ sdrv = "live" /\ sylast = SyNoCall
    /\ sclk \in {500000, 1000000, 2000000, 3000000}
    /\ SpiIdle /\ BaudIdle /\ DynIdle

NextTimer ==
    \/ TimNew \/ TimStart \/ TimWait \/ TimCancel \/ TimListen
    \/ TimClearInterrupt \/ TimRelease \/ HwTimClock
    \/ SysStart \/ SysWait \/ SysCancel \/ SysListen \/ SysUnlisten
    \/ HwSystClock

SpecTimer == InitTimer /\ [][NextTimer]_vars

\* A periodic timer that was started once and is then polled for ever: the
\* counter hardware keeps counting and the polling loop keeps calling wait.
InitTimerPoll ==
    /\ dut = "tim"
    /\ build \in [checks : BOOLEAN, wide : BOOLEAN]
    /\ \E clk \in {500, 1000, 3000, 4000}, ticks \in TicksSet :
         LET n == CountDownTimer_new(TimReset, clk, build.checks)
             r == CountDownTimer_start(n.tim, ticks, build.checks, build.wide)
         IN  /\ n.res = "Ok" /\ r.res = "Ok"
             /\ tim = r.tim
             /\ tlast = [NoCall EXCEPT !.op = "start", !.res = "Ok",
                                       !.pre = n.tim, !.arg = ticks,
                                       !.steps = r.steps]
             /\ tg = [TgInit EXCEPT !.started = TRUE, !.clk = clk]
    /\ tdrv = "live" /\ wpc = WaitIdle
    /\ syst = SystReset /\ sclk = 1000000 /\ sdrv = "live"
    /\ sylast = SyNoCall
    /\ SpiIdle /\ BaudIdle /\ DynIdle

NextTimerPoll == TimWait \/ HwTimClock

SpecTimerPoll ==
    /\ InitTimerPoll
    /\ [][NextTimerPoll]_vars
    /\ WF_vars(TimWait)
    /\ WF_vars(HwTimClock)

\* The same timer with the counter hardware running beside the program:
\* an update event can fall between the two register accesses of a wait.
NextTimerRace == TimWaitRead \/ TimWaitClear \/ HwTimClock

SpecTimerRace == InitTimerPoll /\ [][NextTimerRace]_vars

TimersIdle ==
    /\ dut = "tim" /\ build = [checks |-> TRUE, wide |-> FALSE]
    /\ tim = TimReset /\ tdrv = "none" /\ tg = TgInit /\ tlast = NoCall
    /\ wpc = WaitIdle
    /\ syst = SystReset /\ sdrv = "live" /\ sylast = SyNoCall
    /\ sclk = SysDiv

(***************************************************************************)
(* SPI configuration: constructors, mode transitions, enable and init, the *)
(* status getters, interrupt enables, release, use_dma and the DMA         *)
(* builder.                                                                *)
(***************************************************************************)
InitSpiCfg == TimersIdle /\ SpiIdle /\ BaudIdle /\ DynIdle

NextSpiCfg ==
    \/ SpiNew \/ SpiToBidi \/ SpiToNormal \/ SpiToSlave \/ SpiToMaster
    \/ SpiEnable \/ SpiInit \/ SpiIsFlag
    \/ SpiListen \/ SpiUnlisten \/ SpiRelease \/ SpiUseDma \/ SpiDma

SpecSpiCfg == InitSpiCfg /\ [][NextSpiCfg]_vars

(***************************************************************************)
(* SPI byte transfer: a Master-typed driver as new / new_bidi or as         *)
(* new_slave / new_bidi_slave and to_master_operation leave it; read and   *)
(* send, enable, init and the status getters; and the bus.                 *)
(***************************************************************************)
IoMode == [polarity |-> "IdleLow", phase |-> "CaptureOnFirstTransition"]

InitSpiIo ==
    /\ TimersIdle /\ BaudIdle /\ DynIdle
    /\ wire \in {"loopback", "free"}
    /\ pins = "alt"
    /\ \E tmode \in {"Normal", "Bidi"}, made \in {"Master", "Slave"} :
         LET h == Spi_new(tmode, made, IoMode, 1, 8).spi
         IN  /\ spi = IF made = "Master" THEN h
                      ELSE to_master_operation(Fresh(h), tmode)
             /\ spid = [live |-> "live", tmode |-> tmode, op |-> "Master"]
             /\ splast =
                   IF made = "Master"
                   THEN [SpNoCall EXCEPT !.op = "new", !.res = "Ok"]
                   ELSE [SpNoCall EXCEPT
                            !.op = "to_master_operation", !.res = "Ok",
                            !.pre = Fresh(h),
                            !.pred = [live |-> "live", tmode |-> tmode,
                                      op |-> "Slave"]]
    /\ xfer = XferIdle
    /\ cfg = [mode |-> IoMode, freq |-> 1, clock |-> 8]

NextSpiIo ==
    \/ SpiRead \/ SpiSend \/ SpiEnable \/ SpiInit \/ SpiIsFlag
    \/ HwShiftOut \/ HwReceive \/ HwFault

SpecSpiIo == InitSpiIo /\ [][NextSpiIo]_vars

(***************************************************************************)
(* SPI blocking calls: a Master-typed, enabled driver, transfer and write,  *)
(* read and send between them, and the bus.                                *)
(***************************************************************************)
InitSpiXfer ==
    /\ TimersIdle /\ BaudIdle /\ DynIdle
    /\ wire \in {"loopback", "free"}
    /\ pins = "alt"
    /\ \E tmode \in {"Normal", "Bidi"}, made \in {"Master", "Slave"} :
         LET h == Spi_new(tmode, made, IoMode, 1, 8).spi
         IN  /\ spi = IF made = "Master" THEN h
                      ELSE to_master_operation(Fresh(h), tmode)
             /\ spid = [live |-> "live", tmode |-> tmode, op |-> "Master"]
             /\ splast =
                   IF made = "Master"
                   THEN [SpNoCall EXCEPT !.op = "new", !.res = "Ok"]
                   ELSE [SpNoCall EXCEPT
                            !.op = "to_master_operation", !.res = "Ok",
                            !.pre = Fresh(h),
                            !.pred = [live |-> "live", tmode |-> tmode,
                                      op |-> "Slave"]]
    /\ \E words \in UNION {[1 .. n -> Bytes] : n \in 0 .. MaxLen} : xfer = [XferIdle EXCEPT !.orig = words]
    /\ cfg = [mode |-> IoMode, freq |-> 1, clock |-> 8]

\* mode faults and CRC errors are the subject of SpecSpiIo; here the bus
\* shifts bytes and overruns
NextSpiXfer ==
    \/ XferBegin \/ XferPoll \/ SpiRead \/ SpiSend
    \/ HwShiftOut \/ HwReceive

SpecSpiXfer == InitSpiXfer /\ [][NextSpiXfer]_vars

\* A program that makes one blocking call, at any moment, on hardware that
\* is fair: the blocking call keeps polling, a byte in the transmit buffer
\* is eventually shifted out, and the peer on the bus eventually sends when
\* the driver listens.  Mode faults and CRC errors may be raised at any
\* time (and need not be).  The caller's buffer is one of each length.
XferFirst == xfer.op = "none" /\ XferBegin

NextSpiBlock ==
    \/ XferFirst \/ XferPoll
    \/ HwShiftOut \/ HwReceive \/ HwFault

InitSpiBlock ==
    /\ TimersIdle /\ BaudIdle /\ DynIdle
    /\ wire = "free"
    /\ pins = "alt"
    /\ \E tmode \in {"Normal", "Bidi"}, made \in {"Master", "Slave"} :
         LET h == Spi_new(tmode, made, IoMode, 1, 8).spi
         IN  /\ spi = IF made = "Master" THEN h
                      ELSE to_master_operation(Fresh(h), tmode)
             /\ spid = [live |-> "live", tmode |-> tmode, op |-> "Master"]
             /\ splast =
                   IF made = "Master"
                   THEN [SpNoCall EXCEPT !.op = "new", !.res = "Ok"]
                   ELSE [SpNoCall EXCEPT
                            !.op = "to_master_operation", !.res = "Ok",
                            !.pre = Fresh(h),
                            !.pred = [live |-> "live", tmode |-> tmode,
                                      op |-> "Slave"]]
    /\ \E n \in 0 .. MaxLen :
         xfer = [XferIdle EXCEPT
                    !.orig = [k \in 1 .. n |-> k % (MaxByte + 1)]]
    /\ cfg = [mode |-> IoMode, freq |-> 1, clock |-> 8]

SpecSpiBlock ==
    /\ InitSpiBlock
    /\ [][NextSpiBlock]_vars
    /\ WF_vars(XferPoll)
    /\ WF_vars(HwShiftOut)
    /\ WF_vars(HwReceive)

(***************************************************************************)
(* The SPI driver after construction: mode transitions, enable and init,   *)
(* interrupt enables, read and send in any order (on a Master-typed        *)
(* driver), and a bus wired as a loopback.  A transfer or a write is a     *)
(* sequence of these send and read calls (hal_02.rs, mod blocking), so     *)
(* every control-register state a blocking call produces is produced here. *)
(***************************************************************************)
InitSpiAll ==
    /\ TimersIdle /\ BaudIdle /\ DynIdle
    /\ wire = "loopback"
    /\ pins = "alt"
    /\ \E tmode \in {"Normal", "Bidi"}, op \in {"Master", "Slave"},
          mode \in SpiModes :
         LET r == Spi_new(tmode, op, mode, 1, 8)
         IN  /\ r.res = "Ok"
             /\ spi = r.spi
             /\ spid = [live |-> "live", tmode |-> tmode, op |-> op]
             /\ cfg = [mode |-> mode, freq |-> 1, clock |-> 8]
    /\ splast = [SpNoCall EXCEPT !.op = "new", !.res = "Ok"]
    /\ xfer = XferIdle

NextSpiAll ==
    \/ SpiToBidi \/ SpiToNormal \/ SpiToSlave \/ SpiToMaster
    \/ SpiEnable \/ SpiInit
    \/ SpiListen \/ SpiUnlisten
    \/ SpiRead \/ SpiSend
    \/ HwShiftOut

SpecSpiAll == InitSpiAll /\ [][NextSpiAll]_vars

(***************************************************************************)
(* A dynamic pin: constructed with any tracked mode, over a pad that is as *)
(* reset left it or configured for that mode, then any calls.              *)
(***************************************************************************)
InitDyn ==
    /\ TimersIdle /\ SpiIdle /\ BaudIdle
    /\ \E mode \in Dynamics, hw \in Dynamics, e \in {"none", "low", "high"} :
         /\ hw \in {"InputFloating", mode}
         /\ dpin = [DynPinReset EXCEPT !.mode = mode, !.hw = hw, !.ext = e]
    /\ dlast = [op |-> "new", res |-> "none", val |-> FALSE, pre |-> dpin]

NextDyn ==
    \/ DynMake \/ DynSetHigh \/ DynSetLow \/ DynIsLow \/ DynIsHigh
    \/ HwPinDrive

SpecDyn == InitDyn /\ [][NextDyn]_vars

(***************************************************************************)
(* Baud rate: pre_init's divisor for every clock and requested frequency   *)
(* in range.                                                               *)
(***************************************************************************)
InitBaud ==
    /\ TimersIdle /\ SpiIdle /\ DynIdle
    /\ baud \in [clock : 1 .. MaxHz, freq : 0 .. MaxReq, done : {FALSE},
                  br : {0}]

NextBaud == BaudApply

SpecBaud == InitBaud /\ [][NextBaud]_vars

(***************************************************************************)
(* Claims about the timers, checked under SpecTimer.                       *)
(***************************************************************************)
\* C1: CountDownTimer.wait polls the update flag: with the flag not set it
\* returns WouldBlock and changes nothing; with the flag set it clears the
\* flag and returns Ok.  (SpecTimer)
C1_WaitPollsFlag ==
    tlast.op = "wait" =>
        IF tlast.pre.uif
        THEN tlast.res = "Ok" /\ tim = [tlast.pre EXCEPT !.uif = FALSE]
        ELSE tlast.res = "WouldBlock" /\ tim = tlast.pre

\* C1 witness: a wait on a running timer found the update flag set, cleared
\* it and returned Ok.
C1_Witness ==
    /\ tlast.op = "wait" /\ tlast.res = "Ok"
    /\ tlast.pre.uif /\ ~tim.uif /\ tim.cen

\* C2: on a started timer, a wait issued after a wait that returned Ok, with
\* no update event in between, does not return Ok again.
C2_OkOncePerExpiry ==
    (tlast.op = "wait" /\ tlast.g.started /\ tlast.g.fresh)
        => tlast.res # "Ok"

\* C2 witness: on a started, running timer a wait that came right after a
\* wait that returned Ok, before the next update event, returned WouldBlock.
C2_Witness ==
    /\ tlast.op = "wait" /\ tlast.res = "WouldBlock"
    /\ tlast.g.started /\ tlast.g.fresh /\ tim.cen /\ ~tim.uif

\* C8: cancel on a stopped counter fails with Disabled and changes nothing,
\* cancel on a running counter stops it and returns Ok, and the second of two
\* consecutive cancel calls returns Disabled; for CountDownTimer and for
\* SysCountDownTimer.
C8_CancelDisabled ==
    /\ tlast.op = "cancel" =>
         /\ IF tlast.pre.cen
            THEN tlast.res = "Ok" /\ ~tim.cen
            ELSE tlast.res = "Disabled" /\ tim = tlast.pre
         /\ tlast.g.lastCancel => tlast.res = "Disabled"
    /\ sylast.op = "cancel" =>
         /\ IF sylast.pre.enable
            THEN sylast.res = "Ok" /\ ~syst.enable
            ELSE sylast.res = "Disabled" /\ syst = sylast.pre
         /\ sylast.prevCancel => sylast.res = "Disabled"

\* C8 witness: a running CountDownTimer was cancelled and cancelled again.
C8_Witness ==
    /\ tlast.op = "cancel" /\ tlast.res = "Disabled"
    /\ tlast.g.lastCancel /\ tlast.g.cancelled /\ tlast.g.started

\* C9: after a cancel that succeeded, no wait returns Ok until start is
\* called again.
C9_NoOkAfterCancel ==
    (tlast.op = "wait" /\ tlast.g.cancelled) => tlast.res # "Ok"

\* C10: cancel, successful or failed, leaves the update flag, the counter
\* value, the auto-reload value and the prescaler unchanged; only the
\* counter-enable bit may change.
C10_CancelFrame ==
    tlast.op = "cancel" => tim = [tlast.pre EXCEPT !.cen = tim.cen]

\* C10 witness: a cancel succeeded mid-count with the update flag pending,
\* and the flag is still pending.
C10_Witness ==
    /\ tlast.op = "cancel" /\ tlast.res = "Ok"
    /\ tlast.pre.uif /\ tim.uif /\ tlast.pre.cnt > 0 /\ tim.cnt > 0

\* C11: start accesses the timer in the order disable counter, reset
\* counter, write reload = ticks - 1, trigger update, enable counter; no
\* start writes the reload register while the counter is enabled; after a
\* successful start the counter is enabled, counts from zero, and the
\* written reload value is the latched one.
C11_StartOrder ==
    tlast.op = "start" =>
        /\ \A i \in 1 .. Len(tlast.steps) :
              tlast.steps[i].a = "set_auto_reload" => ~tlast.steps[i].cen
        /\ tlast.res = "Ok" =>
              /\ Len(tlast.steps) = 5
              /\ tlast.steps[1].a = "disable_counter"
              /\ tlast.steps[2].a = "reset_counter"
              /\ tlast.steps[3].a = "set_auto_reload"
              /\ tlast.steps[4].a = "trigger_update"
              /\ tlast.steps[5].a = "enable_counter"
              /\ tlast.arg >= 1 => tlast.steps[3].v = tlast.arg - 1
              /\ tim.cen /\ tim.cnt = 0
              /\ tim.arr = tlast.steps[3].v /\ tim.arr_sh = tim.arr

\* C11 witness: a start succeeded on a counter that was running mid-count
\* with another reload value latched.
C11_Witness ==
    /\ tlast.op = "start" /\ tlast.res = "Ok" /\ tlast.arg >= 1
    /\ tlast.pre.cen /\ tlast.pre.cnt > 0
    /\ tlast.pre.arr_sh # tim.arr_sh

\* C12: a start whose reload value ticks - 1 (zero ticks included) does not
\* fit the reload register fails the call (the configuration error
\* WrongAutoReload, or at least a panic) and leaves the reload register as
\* it was; a start that writes the reload register writes exactly ticks - 1.
C12_ReloadFits ==
    tlast.op = "start" =>
        IF tlast.arg >= 1 /\ tlast.arg - 1 <= max_auto_reload(build.wide)
        THEN tlast.res = "Ok" /\ tim.arr = tlast.arg - 1
        ELSE tlast.res \in {"WrongAutoReload", "Panic"}
             /\ tim.arr = tlast.pre.arr

\* C13: a SysCountDownTimer.start whose tick count us * MHz - 1 is not a
\* 24-bit value fails before the reload register is written; a start that
\* returns has committed exactly us * MHz - 1.
C13_SysReloadFits ==
    sylast.op = "start" =>
        LET ticks == sylast.arg * (sclk \div SysDiv) - 1
        IN  IF ticks >= 0 /\ ticks <= U24Max
            THEN sylast.res = "Ok" /\ syst.rvr = ticks
            ELSE sylast.res = "Panic" /\ syst = sylast.pre

\* C14: a periodic timer that was started with reload R and is polled
\* repeatedly returns Ok from wait again and again without start being
\* called again: every update event is followed by an Ok, every Ok reports
\* an update event that happened after the Ok before it, and in a loop that
\* polls after every counter clock the Ok that follows an Ok comes exactly
\* R + 1 counter clocks after it.  (SpecTimerPoll)
C14_PeriodicOk ==
    /\ []((tlast.op = "wait" /\ tlast.res = "Ok")
             => /\ tlast.pre.uif /\ ~tlast.g.fresh /\ tim.cen
                /\ tlast.g.since >= 0 => tlast.g.since = tim.arr_sh + 1)
    /\ []((tlast.op = "wait" /\ tlast.res = "WouldBlock")
             => tlast.g.since <= tim.arr_sh)
    /\ []<>(tlast.op = "wait" /\ tlast.res = "Ok")
    /\ (tim.uif ~> (tlast.op = "wait" /\ tlast.res = "Ok"))

\* C14 witness: polled after every counter clock, a wait returned Ok R + 1
\* clocks after the Ok before it, R above zero, and the counter goes on
\* counting.
C14_Witness ==
    /\ tlast.op = "wait" /\ tlast.res = "Ok" /\ tlast.pre.uif
    /\ tlast.g.since = tim.arr_sh + 1
    /\ tim.cen /\ tim.arr_sh > 0 /\ tim.cnt = 0

\* C22: new writes the prescaler clk / FREQ - 1 with one register write
\* when that value fits in 16 bits and fails without writing when it does
\* not; the prescaler of a constructed timer stays clk / FREQ - 1, and no
\* start, wait or cancel changes it.
C22_PrescalerOnce ==
    LET psc == tg.clk \div FREQ - 1
    IN  /\ tlast.op = "new" =>
              IF psc \in 0 .. U16Max
              THEN /\ tlast.res = "Ok" /\ tim.psc = psc
                   /\ Len(tlast.steps) = 1
                   /\ tlast.steps[1].a = "set_prescaler"
                   /\ tlast.steps[1].v = psc
              ELSE /\ tlast.res = "Panic" /\ tim.psc = TimReset.psc
                   /\ tlast.steps = <<>>
        /\ tdrv \in {"live", "released"} => tim.psc = psc
        /\ tlast.op \in {"start", "wait", "cancel"}
              => tim.psc = tlast.pre.psc

\* C22 witness: a timer constructed with a prescaler above zero was
\* started, has expired, and was cancelled.
C22_Witness ==
    /\ tlast.op = "cancel" /\ tlast.res = "Ok"
    /\ tim.psc > 0 /\ tg.started /\ tim.uif

\* C25: release disables the counter and changes nothing else, whatever
\* state the timer was in; the counter of a released timer is stopped.
C25_ReleaseStops ==
    /\ tlast.op = "release" =>
          /\ ~tim.cen
          /\ tim = [tlast.pre EXCEPT !.cen = FALSE]
    /\ tdrv = "released" => ~tim.cen

\* C25 witness: a timer that was running mid-count, with an expiry
\* pending, was released.
C25_Witness ==
    /\ tlast.op = "release" /\ tlast.pre.cen /\ tlast.pre.cnt > 0
    /\ tlast.pre.uif /\ ~tim.cen

\* the latest call was a start that failed on the reload write
StartFailedOnReload == tlast.op = "start" /\ tlast.res = "WrongAutoReload"

\* C27: a start that fails on the reload write leaves the counter stopped
\* and at zero, has issued no update trigger and has written no reload
\* value (the reload register, its latched copy and the update flag are as
\* before), and a cancel that follows at once returns Disabled.
C27_FailedStartStops ==
    StartFailedOnReload =>
        /\ ~tim.cen /\ tim.cnt = 0
        /\ tim = [tlast.pre EXCEPT !.cen = FALSE, !.cnt = 0]
        /\ Len(tlast.steps) = 2
        /\ tlast.steps[1].a = "disable_counter"
        /\ tlast.steps[2].a = "reset_counter"
        /\ CountDownTimer_cancel(tim).res = "Disabled"
        /\ CountDownTimer_cancel(tim).tim = tim

\* C27 witness: a start failed on the reload write while an earlier
\* countdown was running mid-count.
C27_Witness ==
    /\ StartFailedOnReload
    /\ tlast.pre.cen /\ tlast.pre.cnt > 0 /\ tg.started

\* C26: a wait call clears the update flag only when it has read the flag
\* set, and then returns Ok; a call that read it clear returns WouldBlock
\* and clears nothing; the flag goes from set to clear in no other step.
\* So an update event that falls between the read and the clear of a call
\* falls in a call that returns Ok, and one that falls after the read of a
\* call that returns WouldBlock stays pending.  (SpecTimerRace)
C26_ExpiryNotLost ==
    /\ []((tlast.op = "wait" /\ tlast.res = "Ok")
             => (~wpc.seen /\ tlast.pre.uif
                 /\ tim = [tlast.pre EXCEPT !.uif = FALSE]))
    /\ []((tlast.op = "wait" /\ tlast.res = "WouldBlock")
             => (wpc.seen /\ ~tg.raced /\ tim = tlast.pre))
    /\ [](wpc.at = "clear" => tim.uif)
    /\ [][(tim.uif /\ ~tim'.uif)
            => (tlast'.op = "wait" /\ tlast'.res = "Ok")]_vars

\* C26 witness: the counter rolled over between the flag read and the flag
\* clear of a wait call, which returned Ok.
C26_Witness ==
    /\ tlast.op = "wait" /\ tlast.res = "Ok" /\ wpc.at = "idle"
    /\ tg.raced /\ tlast.pre.uif /\ ~tim.uif

(***************************************************************************)
(* Claims about the SPI driver.                                            *)
(***************************************************************************)
\* C3: after any constructor and any sequence of mode transitions the
\* control register agrees with the type: MSTR = 1 and SSI = 1 exactly when
\* the operation mode is Master, BIDIMODE = 1 exactly when the transfer mode
\* is Bidirectional.  (SpecSpiCfg)
C3_ModeBitsAgree ==
    spid.live = "live" =>
        /\ spi.cr1.mstr <=> (spid.op = "Master")
        /\ spi.cr1.ssi <=> (spid.op = "Master")
        /\ spi.cr1.bidimode <=> (spid.tmode = "Bidi")

Prescaler(br) == 2 ^ (br + 1)

\* C4 as stated: whenever pre_init returns, its prescaler p = 2^(br+1)
\* satisfies c / p <= f and no smaller power of two in {2,...,256} does.
\* (SpecBaud)
C4_SmallestPrescaler ==
    (baud.done /\ baud.br # BrPanic) =>
        /\ baud.br \in 0 .. 7
        /\ baud.clock <= Prescaler(baud.br) * baud.freq
        /\ \A k \in 0 .. 7 :
             k < baud.br => baud.clock > Prescaler(k) * baud.freq

\* C4 amended: pre_init panics exactly when f = 0 or c < f; otherwise br is
\* the least k in 0..7 with floor(c / f) < 3 * 2^k, and 7 when there is
\* none: floor(c / f) < 3 * 2^br when br < 7, and floor(c / f) >=
\* 3 * 2^(br-1) when br > 0.  The prescaler is floor(c / f) rounded to a
\* power of two, not the smallest one with c / p <= f.  (SpecBaud)
C4_RoundedPrescaler ==
    baud.done =>
        IF baud.freq = 0 \/ baud.clock < baud.freq
        THEN baud.br = BrPanic
        ELSE LET r == baud.clock \div baud.freq
             IN  /\ baud.br \in 0 .. 7
                 /\ baud.br < 7 => r < 3 * 2 ^ baud.br
                 /\ baud.br > 0 => r >= 3 * 2 ^ (baud.br - 1)

\* C4 witness: pre_init returned a prescaler with c / p > f.
C4_Witness ==
    /\ baud.done /\ baud.br \in 0 .. 6
    /\ baud.clock > Prescaler(baud.br) * baud.freq

IsIo == splast.op \in {"read", "send"}

Ready == IF splast.op = "read" THEN splast.snap.rxne ELSE splast.snap.txe

NoError == ~splast.snap.ovr /\ ~splast.snap.modf /\ ~splast.snap.crcerr

\* the latest call made the register access a
Accessed(a) == \E i \in 1 .. Len(spi.log) : spi.log[i].a = a

\* the latest call made the register access a after it read the status
AccessedAfterStatus(a) ==
    \E i, j \in 1 .. Len(spi.log) :
        i < j /\ spi.log[i].a = "sr_r" /\ spi.log[j].a = a

\* C5: read and send decide on one status snapshot with the priority
\* Overrun > ModeFault > Crc > ready > WouldBlock, and move a byte through
\* the data register only in the ready case.  (SpecSpiIo)
C5_StatusPriority ==
    IsIo =>
        /\ splast.snap.ovr => splast.res = "Overrun"
        /\ (~splast.snap.ovr /\ splast.snap.modf) => splast.res = "ModeFault"
        /\ (~splast.snap.ovr /\ ~splast.snap.modf /\ splast.snap.crcerr)
               => splast.res = "Crc"
        /\ (NoError /\ Ready) => splast.res = "Ok"
        /\ (NoError /\ ~Ready) => splast.res = "WouldBlock"
        /\ splast.op = "read" =>
               /\ Accessed("dr_r") <=> (NoError /\ Ready)
               /\ ~Accessed("dr_w")
               /\ splast.val = IF NoError /\ Ready THEN splast.pre.rx
                               ELSE NoByte
        /\ splast.op = "send" =>
               /\ Accessed("dr_w") <=> (NoError /\ Ready)
               /\ spi.tx = IF NoError /\ Ready THEN splast.arg
                           ELSE splast.pre.tx
        /\ Len(SelectSeq(spi.log, LAMBDA e : e.a = "sr_r")) = 1

\* C5 witness: a send found every flag set at once and reported Overrun.
C5_Witness ==
    /\ splast.op = "send" /\ splast.res = "Overrun"
    /\ splast.snap.ovr /\ splast.snap.modf /\ splast.snap.crcerr
    /\ splast.snap.txe /\ splast.snap.rxne

\* C6: a read that reports ModeFault has rewritten the control register and
\* cleared the flag, a read that reports Crc has cleared the CRC-error bit.
\* (SpecSpiIo)
C6_ReadClearsErrors ==
    splast.op = "read" =>
        /\ splast.res = "ModeFault" =>
               AccessedAfterStatus("cr1_w") /\ ~spi.sr.modf
        /\ splast.res = "Crc" =>
               AccessedAfterStatus("sr_w") /\ ~spi.sr.crcerr

\* C7: a send that finds Overrun set reads the data register (which clears
\* the flag), returns Overrun and does not write its byte to the data
\* register.  (SpecSpiIo)
C7_SendOverrun ==
    (splast.op = "send" /\ splast.snap.ovr) =>
        /\ splast.res = "Overrun"
        /\ AccessedAfterStatus("dr_r")
        /\ ~Accessed("dr_w")
        /\ spi.tx = splast.pre.tx
        /\ ~spi.sr.ovr

\* C7 witness: the transmit buffer was free and held another byte when the
\* send was refused.
C7_Witness ==
    /\ splast.op = "send" /\ splast.res = "Overrun"
    /\ splast.snap.txe /\ splast.arg # splast.pre.tx
    /\ splast.pre.sr.rxne

\* C29: in Bidirectional mode a read clears and a send sets BIDIOE with
\* its first register access, before it reads the status register, and
\* whatever it then returns; the call changes no other bit of CR1, at any
\* of its accesses, and leaves CR2 alone: after the call BIDIOE tells the
\* direction of that call.  (SpecSpiIo)
C29_DirectionBit ==
    (IsIo /\ splast.pred.tmode = "Bidi") =>
        LET cr1 == [splast.pre.cr1 EXCEPT !.bidioe = (splast.op = "send")]
        IN  /\ Len(spi.log) >= 2
            /\ spi.log[1].a = "cr1_w" /\ spi.log[2].a = "sr_r"
            /\ \A i \in 1 .. Len(spi.log) : spi.log[i].cr1 = cr1
            /\ spi.cr1 = cr1 /\ spi.cr1.bidimode
            /\ spi.cr2 = splast.pre.cr2

\* C29 witness: with the wire set to send, a read that found a mode fault
\* returned the error and left the wire set to receive.
C29_Witness ==
    /\ splast.op = "read" /\ splast.pred.tmode = "Bidi"
    /\ splast.res = "ModeFault"
    /\ splast.pre.cr1.bidioe /\ ~spi.cr1.bidioe

(***************************************************************************)
(* Claims about the blocking calls (SpecSpiXfer).                          *)
(***************************************************************************)
\* the blocking call began with the receive path idle: no byte unread, none
\* lost, none in the transmit buffer
IdleAtEntry == ~xfer.pre.rxne /\ ~xfer.pre.ovr /\ xfer.pre.txe

\* every byte read by the call is the byte it sent just before
Echoed ==
    \A k \in 1 .. Len(xfer.hist) :
        (xfer.hist[k].e = "read" /\ k > 1) => xfer.hist[k].b = xfer.hist[k - 1].b

\* C15: transfer keeps the buffer's length, and its positions not yet
\* exchanged keep their bytes in order; a Normal-mode transfer that returns
\* Ok with every byte read being the byte just sent (as on a loopback wire
\* entered idle) returns the buffer unchanged.
C15_TransferEcho ==
    xfer.op = "transfer" =>
        /\ Len(xfer.buf) = Len(xfer.orig)
        /\ \A k \in 1 .. Len(xfer.buf) :
              (xfer.res = "run" /\ k >= xfer.i) => xfer.buf[k] = xfer.orig[k]
        /\ (xfer.res = "Ok" /\ spid.tmode = "Normal") =>
              /\ Echoed => xfer.buf = xfer.orig
              /\ (wire = "loopback" /\ IdleAtEntry) => Echoed

\* C15 witness: a Normal-mode transfer of two different bytes over a
\* loopback wire returned Ok.
C15_Witness ==
    /\ xfer.op = "transfer" /\ xfer.res = "Ok" /\ spid.tmode = "Normal"
    /\ wire = "loopback" /\ IdleAtEntry
    /\ Len(xfer.orig) = 2 /\ xfer.orig[1] # xfer.orig[2]
    /\ xfer.buf = xfer.orig

\* C16: transfer runs in lockstep: its successful sends and reads
\* alternate, send first, position by position in increasing order; the
\* byte sent at position i is the caller's byte i, and the byte read next is
\* stored at position i.  So byte i+1 is never sent before byte i is read.
C16_Lockstep ==
    xfer.op = "transfer" =>
        /\ \A k \in 1 .. Len(xfer.hist) :
              LET pos == (k + 1) \div 2
              IN  /\ xfer.hist[k].i = pos
                  /\ IF k % 2 = 1
                     THEN /\ xfer.hist[k].e = "send"
                          /\ xfer.hist[k].b = xfer.orig[pos]
                     ELSE /\ xfer.hist[k].e = "read"
                          /\ xfer.buf[pos] = xfer.hist[k].b
        /\ xfer.res = "run" =>
              Len(xfer.hist) = 2 * (xfer.i - 1)
                                 + (IF xfer.phase = "read" THEN 1 ELSE 0)
        /\ xfer.res = "Ok" => Len(xfer.hist) = 2 * Len(xfer.orig)

\* C16 witness: a two-byte transfer returned Ok with bytes that differ from
\* the ones sent.
C16_Witness ==
    /\ xfer.op = "transfer" /\ xfer.res = "Ok" /\ Len(xfer.orig) = 2
    /\ xfer.buf[1] # xfer.orig[1] /\ xfer.buf[2] # xfer.orig[2]
    /\ xfer.buf[1] # xfer.buf[2]

\* a Normal-mode write of a master returned Ok and the caller has sent
\* nothing since
AfterMasterWrite ==
    /\ xfer.op = "write" /\ xfer.res = "Ok" /\ Len(xfer.orig) > 0
    /\ spid.tmode = "Normal" /\ spi.cr1.mstr

\* C17 as stated: after a successful Normal-mode write, and before a new
\* send, no byte is left to read: a read returns WouldBlock.
C17_WriteDrains ==
    AfterMasterWrite => read_normal(spi).res = "WouldBlock"

\* C17 amended: a Normal-mode write of a master that was entered with the
\* receive path idle has, when it returns Ok, read one byte for each byte
\* it sent; the receive buffer is empty and no byte is in flight, and a
\* read before a new send returns WouldBlock.
C17_WriteDrainsFromIdle ==
    (AfterMasterWrite /\ IdleAtEntry) =>
        /\ Len(xfer.hist) = 2 * Len(xfer.orig)
        /\ \A k \in 1 .. Len(xfer.hist) :
              xfer.hist[k].e = (IF k % 2 = 1 THEN "send" ELSE "read")
        /\ ~spi.sr.rxne /\ ~spi.sr.ovr /\ spi.sr.txe
        /\ read_normal(spi).res = "WouldBlock"

\* C17 witness: a two-byte write entered idle returned Ok.
C17_Witness ==
    /\ AfterMasterWrite /\ IdleAtEntry /\ Len(xfer.orig) = 2
    /\ splast.op = "write" /\ splast.res = "Ok"

\* C18: a Bidirectional-mode write only sends: its history is one send per
\* byte, in the buffer's order, with no read; from its first poll on the
\* output-enable bit is set, in every register access and when it returns.
C18_BidiWriteSendOnly ==
    (xfer.op = "write" /\ spid.tmode = "Bidi") =>
        /\ \A k \in 1 .. Len(xfer.hist) :
              xfer.hist[k] = Event("send", k, xfer.orig[k])
        /\ xfer.res = "run" => Len(xfer.hist) = xfer.i - 1
        /\ xfer.res = "Ok" => Len(xfer.hist) = Len(xfer.orig)
        /\ (xfer.hist # <<>> \/ (splast.op = "write" /\ splast.res # "enter"))
              => /\ spi.cr1.bidimode /\ spi.cr1.bidioe
                 /\ \A k \in 1 .. Len(spi.log) : spi.log[k].cr1.bidioe

\* C18 witness: a two-byte Bidirectional write returned Ok while a byte
\* received before it still waits unread.
C18_Witness ==
    /\ xfer.op = "write" /\ spid.tmode = "Bidi" /\ xfer.res = "Ok"
    /\ Len(xfer.hist) = 2 /\ xfer.pre.rxne /\ spi.sr.rxne
    /\ splast.op = "write"

(***************************************************************************)
(* Claims about the control register (SpecSpiAll).                         *)
(***************************************************************************)
\* C19: whatever the driver is called to do after construction, CR1 keeps
\* CPHA = 1 exactly for CaptureOnSecondTransition, CPOL = 1 exactly for
\* IdleHigh, SSM = 1, the 8-bit frame (DFF = 0), and the BR field pre_init
\* computed from the constructor's frequency and clock.
C19_ConfigBitsKept ==
    spid.live = "live" =>
        /\ spi.cr1.cpha = (cfg.mode.phase = "CaptureOnSecondTransition")
        /\ spi.cr1.cpol = (cfg.mode.polarity = "IdleHigh")
        /\ spi.cr1.ssm
        /\ ~spi.cr1.dff
        /\ spi.cr1.br = pre_init_br(cfg.freq, cfg.clock)

\* C19 witness: a driver constructed with IdleHigh and
\* CaptureOnSecondTransition has enabled an interrupt, sent and received,
\* and has just come back from two mode transitions.
C19_Witness ==
    /\ cfg.mode.polarity = "IdleHigh"
    /\ cfg.mode.phase = "CaptureOnSecondTransition"
    /\ spi.cr1.cpha /\ spi.cr1.cpol /\ spi.cr1.br > 0
    /\ spi.cr2.errie /\ spi.sr.rxne /\ spi.tx = MaxByte
    /\ splast.op = "to_normal_transfer_mode"
    /\ splast.pop = "to_slave_operation"

\* the latest two calls were first, then second, with no bus step between
RoundTrip(first, second) == splast.op = second /\ splast.pop = first

\* C20 as stated: Normal -> Bidi -> Normal and Master -> Slave -> Master
\* leave CR1 with the bit pattern it had before the round trip, the enable
\* bit set.
C20_RoundTripRestores ==
    (\/ RoundTrip("to_bidi_transfer_mode", "to_normal_transfer_mode")
     \/ RoundTrip("to_slave_operation", "to_master_operation"))
        => spi.cr1 = [splast.ppre EXCEPT !.spe = TRUE]

\* C20 amended: both round trips leave CR1 as it was before them with the
\* enable bit set, except that BIDIOE of a Bidirectional-mode driver is
\* set after Master -> Slave -> Master even when a read had cleared it.
C20_RoundTripUpToDirection ==
    /\ RoundTrip("to_bidi_transfer_mode", "to_normal_transfer_mode")
          => spi.cr1 = [splast.ppre EXCEPT !.spe = TRUE]
    /\ RoundTrip("to_slave_operation", "to_master_operation")
          => spi.cr1 = [splast.ppre EXCEPT !.spe = TRUE,
                                           !.bidioe = splast.ppre.bidimode]

\* C20 witness: a Bidirectional-mode driver whose last read left the wire
\* set to receive went Master -> Slave -> Master.
C20_Witness ==
    /\ RoundTrip("to_slave_operation", "to_master_operation")
    /\ splast.ppre.bidimode /\ ~splast.ppre.bidioe /\ spi.cr1.bidioe

(***************************************************************************)
(* Claims about construction and mode transitions (SpecSpiCfg).            *)
(***************************************************************************)
\* the bits of CR1 that define the transfer mode and the operation mode
ModeBits(c) == <<c.bidimode, c.bidioe, c.mstr, c.ssi>>

\* CR1 as the latest call's i-th register access found it
Cr1Before(i) == IF i = 1 THEN splast.pre.cr1 ELSE spi.log[i - 1].cr1

\* C21: every mode transition first writes CR1 with SPE = 0 and nothing
\* else changed, then rewrites the mode bits and ends with SPE = 1; in
\* constructors and transitions no CR1 access changes a mode bit when it
\* found SPE = 1; SPE = 1 holds after every constructor and transition.
C21_DisableFirst ==
    (splast.op \in TransitionOps \cup {"new"} /\ splast.res = "Ok") =>
        /\ \A i \in 1 .. Len(spi.log) :
              ModeBits(spi.log[i].cr1) # ModeBits(Cr1Before(i))
                  => ~Cr1Before(i).spe
        /\ splast.op \in TransitionOps =>
              /\ Len(spi.log) = 2
              /\ spi.log[1].a = "cr1_w" /\ spi.log[2].a = "cr1_w"
              /\ spi.log[1].cr1 = [splast.pre.cr1 EXCEPT !.spe = FALSE]
        /\ spi.cr1.spe

\* C21 witness: an enabled Normal-mode driver went to Bidirectional mode.
C21_Witness ==
    /\ splast.op = "to_bidi_transfer_mode"
    /\ splast.pre.cr1.spe /\ ~splast.pre.cr1.bidimode
    /\ spi.cr1.bidimode /\ spi.cr1.spe

(***************************************************************************)
(* Claims about the interrupt enables (SpecSpiAll).                        *)
(***************************************************************************)
\* the interrupt-enable bit of CR2 that belongs to an event
EnableBit(ev) ==
    CASE ev = "Rxne" -> "rxneie" [] ev = "Txe" -> "txeie"
      [] ev = "Error" -> "errie"

\* the registers without the log of accesses
Regs(h) == [h EXCEPT !.log = <<>>]

\* C23: listen(event) sets and unlisten(event) clears the interrupt-enable
\* bit of that event with one CR2 access and changes nothing else: the other
\* CR2 bits, CR1, the status flags and the data register stay as they were;
\* an unlisten of the event right after a listen that found the bit clear
\* gives back the registers as they were before the listen.
C23_ListenTogglesOneBit ==
    splast.op \in {"listen", "unlisten"} =>
        LET bit == EnableBit(splast.ev)
        IN  /\ Regs(spi) = [Regs(splast.pre) EXCEPT
                               !.cr2[bit] = (splast.op = "listen")]
            /\ Len(spi.log) = 1 /\ spi.log[1].a = "cr2_w"
            /\ (splast.op = "listen" /\ ~splast.pre.cr2[bit])
                  => Regs(unlisten(spi, splast.ev)) = Regs(splast.pre)

\* C23 witness: a listen set an enable bit that was clear while another
\* enable bit was set, a received byte waited and a byte was being sent.
C23_Witness ==
    /\ splast.op = "listen" /\ splast.ev = "Txe"
    /\ ~splast.pre.cr2.txeie /\ spi.cr2.txeie /\ spi.cr2.errie
    /\ spi.sr.rxne /\ ~spi.sr.txe /\ spi.tx = MaxByte

(***************************************************************************)
(* Claims about ownership of the peripheral (SpecSpiCfg).                  *)
(***************************************************************************)
\* a driver call that needs a live Spi value can be made
DriverCallable ==
    ENABLED (\/ SpiRead \/ SpiSend \/ XferBegin \/ SpiListen \/ SpiUnlisten
             \/ SpiEnable \/ SpiInit \/ SpiIsFlag
             \/ SpiToBidi \/ SpiToNormal \/ SpiToSlave \/ SpiToMaster
             \/ SpiRelease \/ SpiUseDma)

\* C24: one Spi value at most holds the peripheral: a constructor runs only
\* when the caller holds the handle (never constructed, or released), every
\* other call consumes or borrows the one live value, a transition leaves
\* one live value of the new type, release leaves none and gives back the
\* pins and the untouched registers, use_dma leaves none and the DMA
\* builder it returns is used once; and without a live value no read, send,
\* transfer, write or other driver call can be made.
C24_SingleOwner ==
    /\ splast.op = "new" => splast.pred.live \in {"none", "released"}
    /\ splast.op \in TransitionOps \cup
                     {"listen", "unlisten", "release", "use_dma", "enable",
                      "init", "is_flag"}
          => splast.pred.live = "live"
    /\ splast.op \in TransitionOps => spid.live = "live"
    /\ splast.op = "release" =>
          /\ spid.live = "released" /\ pins = "default"
          /\ Regs(spi) = Regs(splast.pre)
    /\ splast.op = "use_dma" => spid.live = "dma"
    /\ splast.op = "dma" =>
          splast.pred.live = "dma" /\ spid.live = "channels"
    /\ spid.live # "live" => ~DriverCallable

\* C24 witness: a driver that had just gone to Bidirectional mode was
\* handed to the DMA builder, and no driver call can be made.
C24_Witness ==
    /\ splast.op = "use_dma" /\ spid.live = "dma" /\ ~DriverCallable
    /\ spid.tmode = "Bidi" /\ splast.pre.cr1.bidimode
    /\ splast.pop = "to_bidi_transfer_mode"

(***************************************************************************)
(* Claims about errors in the blocking calls (SpecSpiXfer).                *)
(***************************************************************************)
SpiErrors == {"Overrun", "ModeFault", "Crc"}

\* C28: transfer and write (write_iter is the same loop) return the first
\* error a send or read reports: the call has then returned that error and
\* polls no more, it has sent no byte beyond the failing position, the
\* buffer positions after the failing one hold the caller's bytes, and when
\* it was the send that failed the failing position holds the caller's byte
\* too and was not sent.
C28_StopAtFirstError ==
    /\ (splast.op \in {"transfer", "write"} /\ splast.res \in SpiErrors)
          => xfer.res = splast.res
    /\ xfer.res \in SpiErrors =>
          /\ ~ENABLED XferPoll
          /\ \A k \in 1 .. Len(xfer.hist) : xfer.hist[k].i <= xfer.i
          /\ \A k \in 1 .. Len(xfer.buf) :
                k > xfer.i => xfer.buf[k] = xfer.orig[k]
          /\ xfer.phase = "send" =>
                /\ xfer.buf[xfer.i] = xfer.orig[xfer.i]
                /\ \A k \in 1 .. Len(xfer.hist) : xfer.hist[k].i < xfer.i

\* C28 witness: a two-byte transfer exchanged its first byte for another
\* one and failed with Overrun when it went to send the second.
C28_Witness ==
    /\ xfer.op = "transfer" /\ xfer.res = "Overrun"
    /\ Len(xfer.orig) = 2 /\ xfer.i = 2 /\ xfer.phase = "send"
    /\ xfer.buf[1] # xfer.orig[1] /\ xfer.buf[2] = xfer.orig[2]
    /\ splast.op = "transfer"

(***************************************************************************)
(* Claims about termination of the blocking calls (SpecSpiBlock).          *)
(***************************************************************************)
SendsOf(h) == Len(SelectSeq(h, LAMBDA e : e.e = "send"))

\* C30: on fair hardware a blocking transfer or write that was entered
\* returns: with Ok after exactly one successful send per byte of its
\* buffer, or with the first error; an error flag that stays set ends the
\* call instead of making it poll for ever.
C30_BlockingReturns ==
    /\ [](xfer.res = "Ok" => SendsOf(xfer.hist) = Len(xfer.orig))
    /\ [](xfer.res \in {"run"} \cup SpiErrors
             => SendsOf(xfer.hist) <= Len(xfer.orig))
    /\ (xfer.res = "run") ~> (xfer.res # "run")

\* C30 witness: a two-byte Bidirectional-mode transfer, which waits for the
\* peer's byte after each of its sends, has returned Ok.
C30_Witness ==
    /\ xfer.op = "transfer" /\ spid.tmode = "Bidi" /\ xfer.res = "Ok"
    /\ Len(xfer.orig) = 2 /\ SendsOf(xfer.hist) = 2
    /\ splast.op = "transfer"

(***************************************************************************)
(* Claims about the dynamic pin (SpecDyn).                                 *)
(***************************************************************************)
\* the mode that gates a call: the one the most recent make_* selected, or
\* before the first make_* the one the pin was constructed with
Selected(p) == IF p.made = "none" THEN p.mode ELSE p.made

\* C31: set_high and set_low succeed exactly when the selected mode is
\* OutputPushPull or OutputOpenDrain and then set the output bit; is_low
\* and is_high succeed exactly when it is not OutputPushPull and then
\* return the level of the line (is_high the opposite of is_low); a
\* rejected call returns IncorrectMode; a rejected call and a read change
\* neither the pad nor the tracked mode, which is always the mode of the
\* most recent make_*.
C31_ModeGates ==
    /\ dpin.made # "none" => dpin.mode = dpin.made
    /\ dlast.op \in {"set_high", "set_low"} =>
          IF Selected(dlast.pre) \in {"OutputPushPull", "OutputOpenDrain"}
          THEN /\ dlast.res = "Ok"
               /\ dpin = [dlast.pre EXCEPT !.odr = (dlast.op = "set_high")]
          ELSE dlast.res = "IncorrectMode" /\ dpin = dlast.pre
    /\ dlast.op \in {"is_low", "is_high"} =>
          /\ dpin = dlast.pre
          /\ IF Selected(dlast.pre) # "OutputPushPull"
             THEN /\ dlast.res = "Ok"
                  /\ \E level \in PadLevels(dpin) :
                        dlast.val = (level = (dlast.op = "is_high"))
             ELSE dlast.res = "IncorrectMode"

\* C31 witness: in open-drain output mode, with the output bit high and the
\* line pulled low from outside, is_low succeeded and returned true.
C31_Witness ==
    /\ dlast.op = "is_low" /\ dlast.res = "Ok" /\ dlast.val
    /\ dpin.made = "OutputOpenDrain" /\ dpin.odr /\ dpin.ext = "low"

====
